---- MODULE Spec2Model ----
(***************************************************************************)
(* Job Scheduler and recurring-events engine of gemini-obsidian-helper.    *)
(*                                                                         *)
(* SchedulingService (recurring-events) keeps a Map of job handles keyed   *)
(* by event id; RecurringEventsService derives events from task files and  *)
(* registers one job per event.  The notifications SchedulingService is a  *)
(* second, independent scheduler built on setTimeout/setInterval.          *)
(*                                                                         *)
(* What the model takes from outside the repository:                       *)
(*  - schedule.scheduleJob returns null for a RecurrenceRule whose hour or *)
(*    minute is not a number in range, and a live Job otherwise;           *)
(*  - the vault root is configured and a frontmatter's schedule is a       *)
(*    string;                                                              *)
(*  - the daily reschedule job fires again only after the pass it started  *)
(*    has returned;                                                        *)
(*  - a watch event may be delivered at any time while the watcher is      *)
(*    open, whether or not the file changed.                               *)
(* Strings are sequences of tokens; ids are pairs <<prefix, n>>, n being   *)
(* the uuid of a derived event and 0 for an id given by the caller.        *)
(*                                                                         *)
(* The conversation side (GoogleGenaiAdapter, LlmProcessorService,         *)
(* ToolsRegistryService, ProcessMessageService) follows further down.  It  *)
(* takes from outside the repository:                                      *)
(*  - JSON.parse, trim, indexOf, lastIndexOf, substring and the two        *)
(*    regular expressions, over texts that are sequences of tokens (a      *)
(*    token counts as one character, Lorem as 500);                        *)
(*  - the registry is the one of part_006, which has hasToolHandler and    *)
(*    registers reply and finish next to the file tools;                   *)
(*  - what a collaborator throws is an Error or, for a handler, a string.  *)
(***************************************************************************)
EXTENDS Integers, Sequences, FiniteSets, Bags, TLC

(***************************************************************************)
(* Bounds of the model.                                                    *)
(***************************************************************************)
MaxTimers == 4      \* timer handles that may be referenced or armed at once
MaxApiTimers == 2   \* the same, when the schedulers are driven on their own
MaxUids == 4        \* uuidv4 values that may be in use at once
MaxInFlight == 1    \* suspended processVaultFileEvent calls from watch events
MaxPasses == 2      \* loadAndScheduleAll passes (start + daily reschedules)
MaxClock == 1999    \* the wall clock stops advancing here (ms)
MaxChanges == 1     \* changes made to the vault's files

VARIABLES
  jobs,          \* SchedulingService.jobs : Map<eventId, Job> (insertion ordered)
  timers,        \* timers armed in the runtime (node-schedule jobs, setInterval)
  watchers,      \* SchedulingService.watchers : Map<dir, FSWatcher>
  openWatches,   \* chokidar watchers that are open in the runtime
  isRunning,     \* SchedulingService.isRunning
  nJobs,         \* notifications SchedulingService.jobs : Map<jobId, {intervalId}>
  nTimers,       \* timeouts and intervals armed by the notifications scheduler
  regTimeouts,   \* SchedulerRegistry timeout names
  regIntervals,  \* SchedulerRegistry interval names
  events,        \* RecurringEventsService.events : Map<id, Event>
  scheduledFileEventIds,
  lastProcessed, \* RecurringEventsService.lastProcessed : Map<path, Date>
  now,           \* wall clock, ms
  files,         \* the vault's tasks directory: path -> file content
  dirExists,     \* the tasks directory exists
  globalFile,    \* global_recurring_events.json
  tasks,         \* processVaultFileEvent calls of watch events, suspended at an await
  loader,        \* the loadAndScheduleAll pass in flight, if any
  phase,         \* RecurringEventsService lifecycle: new, starting, started, stopped
  passes,        \* loadAndScheduleAll passes begun
  changes,       \* changes made to the vault's files
  svc,           \* the SchedulingService a caller of the bare schedulers drives
  obs,           \* outcome of the latest call or timer firing
  llmText,       \* the answer of the model, by its parts
  call,          \* one LlmProcessorService.processUserMessage call
  runs,          \* ProcessMessageService.processMessage runs in progress
  execLog,       \* ToolsRegistryService.executeTool calls, as they start and settle
  reg,           \* direct ToolsRegistryService.executeTool calls
  store,         \* the files the file tools see: path -> content
  handler,       \* executions of tool handlers in progress
  sent,          \* SendMessageService.sendMessage calls made by the reply tool
  tg,            \* one TelegramService.sendMessage call and its send attempts
  ctx            \* the vault context processMessage builds

schedVars == <<jobs, timers, watchers, openWatches, isRunning>>
notifVars == <<nJobs, nTimers, regTimeouts, regIntervals>>
engineVars == <<events, scheduledFileEventIds, lastProcessed, now, files, dirExists,
                globalFile, tasks, loader, phase, passes, changes>>
toolVars == <<store, handler, sent, tg, ctx>>
convVars == <<llmText, call, runs, execLog, reg, toolVars>>
vars == <<schedVars, notifVars, engineVars, svc, obs, convVars>>

(***************************************************************************)
(* JavaScript values.                                                      *)
(***************************************************************************)
NaN == -1                       \* Number(s) of a non-numeric string; undefined
Undefined == [tag |-> "undefined", tid |-> 0]
NullJob == [tag |-> "null", tid |-> 0]
JobRef(n) == [tag |-> "job", tid |-> n]
Truthy(v) == v.tag = "job"

\* Map<K, V> with insertion order, as a sequence of entries.
MapHas(m, k) == \E i \in 1..Len(m) : m[i].k = k
MapGet(m, k) ==
  IF MapHas(m, k) THEN m[CHOOSE i \in 1..Len(m) : m[i].k = k].v ELSE Undefined
MapSet(m, k, v) ==
  IF MapHas(m, k)
  THEN [i \in 1..Len(m) |-> IF m[i].k = k THEN [k |-> k, v |-> v] ELSE m[i]]
  ELSE Append(m, [k |-> k, v |-> v])
MapDelete(m, k) == SelectSeq(m, LAMBDA e : e.k # k)
MapKeys(m) == {m[i].k : i \in 1..Len(m)}

(***************************************************************************)
(* Strings.  A string is modelled by its tokens; the tables below give,    *)
(* for each token the model uses, what the code's regular expressions,     *)
(* split(':'), Number and toLowerCase make of it.                          *)
(***************************************************************************)
TimeToks == {"09:30", "00:01", "18:00", "25:99"}       \* match \d{1,2}:\d{2}
DigitToks == {"45"}                                    \* match \d+
WordToks == {"friday", "Friday", "funday", "monday", "45", "noon",
             "minutes", "weeks", "sometime", "daily", "every", "at"}  \* \w+
Lower(t) == IF t = "Friday" THEN "friday" ELSE t
UnitToks == {"minutes", "minute", "hours", "hour", "days", "day"}

SplitColon(t) ==
  CASE t = "09:30" -> <<"09", "30">>
    [] t = "00:01" -> <<"00", "01">>
    [] t = "18:00" -> <<"18", "00">>
    [] t = "25:99" -> <<"25", "99">>
    [] OTHER -> <<t>>
Number(s) ==
  CASE s = "00" -> 0
    [] s = "01" -> 1
    [] s = "09" -> 9
    [] s = "18" -> 18
    [] s = "25" -> 25
    [] s = "30" -> 30
    [] s = "45" -> 45
    [] s = "99" -> 99
    [] OTHER -> NaN
ParseInt(s) == Number(s)

\* const [hours, minutes] = timeStr.split(':').map(Number)
Hours(timeStr) == Number(SplitColon(timeStr)[1])
Minutes(timeStr) ==
  IF Len(SplitColon(timeStr)) >= 2 THEN Number(SplitColon(timeStr)[2]) ELSE NaN

(***************************************************************************)
(* The timer runtime: node-schedule and setInterval.                       *)
(***************************************************************************)
Rule(h, m, d) == [hour |-> h, minute |-> m, dayOfWeek |-> d, ms |-> 0]
Every(ms) == [hour |-> NaN, minute |-> NaN, dayOfWeek |-> NaN, ms |-> ms]
NoDay == 7     \* RecurrenceRule.dayOfWeek left null

\* RecurrenceRule.isValid of node-schedule
IsValidRule(r) ==
  /\ r.hour # NaN /\ r.hour >= 0 /\ r.hour <= 23
  /\ r.minute # NaN /\ r.minute >= 0 /\ r.minute <= 59

UsedTids(S) ==
  {t.tid : t \in S.timers} \cup
  {S.jobs[i].v.tid : i \in {j \in 1..Len(S.jobs) : S.jobs[j].v.tag = "job"}}
NewTid(S) == CHOOSE n \in 1..(Cardinality(UsedTids(S)) + 1) : n \notin UsedTids(S)

\* job.cancel() / clearInterval(job)
Cancel(ts, job) == {t \in ts : t.tid # job.tid}

weekdayMap(w) ==
  CASE w = "sunday" -> 0
    [] w = "monday" -> 1
    [] w = "tuesday" -> 2
    [] w = "wednesday" -> 3
    [] w = "thursday" -> 4
    [] w = "friday" -> 5
    [] w = "saturday" -> 6
    [] OTHER -> NaN

(***************************************************************************)
(* SchedulingService (recurring-events), on S = [jobs, timers].            *)
(***************************************************************************)
unschedule(S, eventId) ==
  LET job == MapGet(S.jobs, eventId) IN
  IF Truthy(job)
  THEN [jobs |-> MapDelete(S.jobs, eventId), timers |-> Cancel(S.timers, job)]
  ELSE S

scheduleJob(S, eventId, rule) ==
  LET S1 == unschedule(S, eventId)
      tid == NewTid(S1)
  IN IF IsValidRule(rule)
     THEN [jobs |-> MapSet(S1.jobs, eventId, JobRef(tid)),
           timers |-> S1.timers \cup {[tid |-> tid, id |-> eventId, rule |-> rule]}]
     ELSE [jobs |-> MapSet(S1.jobs, eventId, NullJob), timers |-> S1.timers]

scheduleDaily(S, timeStr, eventId) ==
  scheduleJob(S, eventId, Rule(Hours(timeStr), Minutes(timeStr), NoDay))

scheduleWeekly(S, weekdayStr, timeStr, eventId) ==
  LET dayNum == weekdayMap(Lower(weekdayStr)) IN
  IF dayNum = NaN
  THEN S
  ELSE scheduleJob(S, eventId, Rule(Hours(timeStr), Minutes(timeStr), dayNum))

UnitMs(unit) ==
  LET u == Lower(unit) IN
  CASE u \in {"minutes", "minute", "mins", "min"} -> 60 * 1000
    [] u \in {"hours", "hour"} -> 60 * 60 * 1000
    [] u \in {"days", "day"} -> 24 * 60 * 60 * 1000
    [] OTHER -> NaN

scheduleInterval(S, interval, unit, eventId) ==
  IF UnitMs(unit) = NaN
  THEN S
  ELSE LET tid == NewTid(S) IN
       [jobs |-> MapSet(S.jobs, eventId, JobRef(tid)),
        timers |-> S.timers \cup
          {[tid |-> tid, id |-> eventId, rule |-> Every(interval * UnitMs(unit))]}]

dailyPattern(dsl) ==
  Len(dsl) = 3 /\ Lower(dsl[1]) = "daily" /\ Lower(dsl[2]) = "at" /\ dsl[3] \in TimeToks
weeklyPattern(dsl) ==
  /\ Len(dsl) = 4 /\ Lower(dsl[1]) = "every" /\ dsl[2] \in WordToks
  /\ Lower(dsl[3]) = "at" /\ dsl[4] \in TimeToks
intervalPattern(dsl) ==
  /\ Len(dsl) = 3 /\ Lower(dsl[1]) = "every" /\ dsl[2] \in DigitToks
  /\ Lower(dsl[3]) \in UnitToks

\* addJob returns [S, ret]
addJob(S, dsl, eventId) ==
  IF dailyPattern(dsl)
  THEN [S |-> scheduleDaily(S, dsl[3], eventId), ret |-> "true"]
  ELSE IF weeklyPattern(dsl)
  THEN [S |-> scheduleWeekly(S, dsl[2], dsl[4], eventId), ret |-> "true"]
  ELSE IF intervalPattern(dsl)
  THEN [S |-> scheduleInterval(S, ParseInt(dsl[2]), dsl[3], eventId), ret |-> "true"]
  ELSE [S |-> S, ret |-> "false"]

\* this.jobs.forEach(job => job.cancel()) stops at the first null job with a
\* TypeError; the entries before it have been cancelled by then.
FirstNull(m) ==
  IF \E i \in 1..Len(m) : m[i].v.tag = "null"
  THEN CHOOSE i \in 1..Len(m) :
         m[i].v.tag = "null" /\ \A j \in 1..(i - 1) : m[j].v.tag # "null"
  ELSE 0
stopThrows(S) == FirstNull(S.jobs) # 0
CancelledByStop(S) ==
  LET n == IF stopThrows(S) THEN FirstNull(S.jobs) - 1 ELSE Len(S.jobs) IN
  {S.jobs[i].v.tid : i \in 1..n}

Cur == [jobs |-> jobs, timers |-> timers]
SetSched(S) == jobs' = S.jobs /\ timers' = S.timers
WithinTimers(S) == UsedTids(S) \subseteq 1..MaxTimers
WithinApiTimers(S) == UsedTids(S) \subseteq 1..MaxApiTimers

Ret(v) == [t |-> "ret", v |-> <<v, 0>>]
Fired(id) == [t |-> "fired", v |-> id]

(***************************************************************************)
(* SchedulingService (notifications), on N = [jobs, timers, regT, regI].   *)
(***************************************************************************)
NCur == [jobs |-> nJobs, timers |-> nTimers, regT |-> regTimeouts, regI |-> regIntervals]
SetNotif(N) ==
  /\ nJobs' = N.jobs /\ nTimers' = N.timers
  /\ regTimeouts' = N.regT /\ regIntervals' = N.regI
NUsedTids(N) ==
  {t.tid : t \in N.timers} \cup {N.jobs[i].v.tid : i \in 1..Len(N.jobs)}
NNewTid(N) == CHOOSE n \in 1..(Cardinality(NUsedTids(N)) + 1) : n \notin NUsedTids(N)
NWithinTimers(N) == NUsedTids(N) \subseteq 1..MaxApiTimers

\* variant: "return true" after the if block
nUnscheduleAlwaysTrue(N, jobId) ==
  LET job == MapGet(N.jobs, jobId) IN
  IF Truthy(job)
  THEN [N |-> [jobs |-> MapDelete(N.jobs, jobId),
               timers |-> Cancel(N.timers, job),
               regT |-> N.regT \ {jobId},
               regI |-> N.regI \ {jobId}],
        ret |-> "true"]
  ELSE [N |-> N, ret |-> "true"]

\* unschedule returns [N, ret]
nUnschedule(N, jobId) ==
  LET job == MapGet(N.jobs, jobId) IN
  IF Truthy(job)
  THEN [N |-> [jobs |-> MapDelete(N.jobs, jobId),
               timers |-> Cancel(N.timers, job),
               regT |-> N.regT \ {jobId},
               regI |-> N.regI \ {jobId}],
        ret |-> "true"]
  ELSE [N |-> N, ret |-> "false"]

\* the checks of addJob that throw before anything is touched
nValidDaily(cron) ==
  /\ Len(cron) = 3 /\ cron[1] = "daily" /\ cron[2] = "at"
  /\ Hours(cron[3]) # NaN /\ Minutes(cron[3]) # NaN
  /\ Hours(cron[3]) >= 0 /\ Hours(cron[3]) <= 23
  /\ Minutes(cron[3]) >= 0 /\ Minutes(cron[3]) <= 59

\* addJob returns [N, ret]; SchedulerRegistry.addTimeout throws on a
\* duplicate name, after the timeout is armed and stored
nAddJob(N, cron, jobId) ==
  IF ~nValidDaily(cron)
  THEN [N |-> N, ret |-> "throw"]
  ELSE LET N1 == nUnschedule(N, jobId).N
           tid == NNewTid(N1)
           N2 == [N1 EXCEPT
                    !.timers = @ \cup {[tid |-> tid, id |-> jobId, kind |-> "timeout"]},
                    !.jobs = MapSet(@, jobId, JobRef(tid))]
       IN IF jobId \in N2.regT
          THEN [N |-> N2, ret |-> "throw"]
          ELSE [N |-> [N2 EXCEPT !.regT = @ \cup {jobId}], ret |-> "void"]

\* the setTimeout callback of addJob: run the job, then arm the 24 h interval
nTimeoutCallback(N, t) ==
  LET N1 == [N EXCEPT !.timers = @ \ {t}]
      tid == NNewTid(N1)
  IN [N1 EXCEPT
        !.timers = @ \cup {[tid |-> tid, id |-> t.id, kind |-> "interval"]},
        !.jobs = MapSet(@, t.id, JobRef(tid)),
        !.regI = @ \cup {t.id}]

(***************************************************************************)
(* RecurringEventsService.  X = [events, sfe, S] is the part of the state  *)
(* that derivation touches: the events map, scheduledFileEventIds and the  *)
(* scheduler.                                                              *)
(***************************************************************************)
DEFAULT_TASKS_DIR_RELATIVE == "03 - Tasks"
debounceInterval == 1000
DailyRescheduleId == <<"daily_reschedule_vault_tasks", 0>>

XCur == [events |-> events, sfe |-> scheduledFileEventIds, S |-> Cur]
SetX(X) ==
  /\ events' = X.events /\ scheduledFileEventIds' = X.sfe /\ SetSched(X.S)

\* uuidv4(): a value in use nowhere in the state
UsedUids(X) ==
  {k[2] : k \in MapKeys(X.events) \cup MapKeys(X.S.jobs) \cup X.sfe
                 \cup {t.id : t \in X.S.timers}}
NewUid(X) == CHOOSE n \in 1..(Cardinality(UsedUids(X)) + 1) : n \notin UsedUids(X)
WithinBounds(X) == WithinTimers(X.S) /\ UsedUids(X) \subseteq 0..MaxUids

\* new Event(id, data)
Event(type, time, weekday, interval, unit, message, isGlobal, taskPath) ==
  [type |-> type, time |-> time, weekday |-> weekday, interval |-> interval,
   unit |-> unit, message |-> message, isGlobal |-> isGlobal, taskPath |-> taskPath]

scheduleEvent(S, eventId, ev) ==
  CASE ev.type = "daily" ->
         IF ev.time # "" THEN scheduleDaily(S, ev.time, eventId) ELSE S
    [] ev.type = "weekly" ->
         IF ev.weekday # "" /\ ev.time # ""
         THEN scheduleWeekly(S, ev.weekday, ev.time, eventId) ELSE S
    [] ev.type = "interval" ->
         IF ev.interval # NaN /\ ev.unit # ""
         THEN scheduleInterval(S, ev.interval, ev.unit, eventId) ELSE S
    [] OTHER -> S

RECURSIVE unscheduleEach(_, _)
unscheduleEach(S, ids) ==
  IF ids = <<>> THEN S ELSE unscheduleEach(unschedule(S, Head(ids)), Tail(ids))

\* variant: the events leave the map but their jobs are never unscheduled
unscheduleFileEventsKeepJobs(X, relativePath) ==
  LET hit == SelectSeq(X.events, LAMBDA e : e.v.taskPath = relativePath)
      ids == [i \in 1..Len(hit) |-> hit[i].k]
  IN [events |-> SelectSeq(X.events, LAMBDA e : e.v.taskPath # relativePath),
      sfe |-> X.sfe \ {ids[i] : i \in 1..Len(ids)},
      S |-> X.S]

unscheduleFileEvents(X, relativePath) ==
  LET hit == SelectSeq(X.events, LAMBDA e : e.v.taskPath = relativePath)
      ids == [i \in 1..Len(hit) |-> hit[i].k]
  IN [events |-> SelectSeq(X.events, LAMBDA e : e.v.taskPath # relativePath),
      sfe |-> X.sfe \ {ids[i] : i \in 1..Len(ids)},
      S |-> unscheduleEach(X.S, ids)]

determineEventType(schedule) ==
  IF Len(schedule) >= 2 /\ Lower(schedule[1]) = "daily" /\ Lower(schedule[2]) = "at"
  THEN "daily"
  ELSE IF /\ Len(schedule) >= 3 /\ Lower(schedule[1]) = "every"
          /\ schedule[2] \in WordToks /\ Lower(schedule[3]) = "at"
  THEN "weekly"
  ELSE IF intervalPattern(schedule)
  THEN "interval"
  ELSE "daily"

\* schedule.replace(/^daily at /i, ''); the schedules of the model leave one token
StripDailyAt(schedule) ==
  IF Len(schedule) >= 3 /\ Lower(schedule[1]) = "daily" /\ Lower(schedule[2]) = "at"
  THEN schedule[3]
  ELSE schedule[1]

\* variant: the time of a DAILY event keeps the whole schedule string
mainEventDataUnstripped(taskDetails, relativePath) ==
  LET schedule == taskDetails.schedule
      type == determineEventType(schedule)
      base == Event(type, "", "", NaN, "", taskDetails.message, FALSE, relativePath)
  IN CASE type = "daily" -> [base EXCEPT !.time = schedule[1]]
       [] type = "weekly" ->
            IF weeklyPattern(schedule)
            THEN [base EXCEPT !.weekday = schedule[2], !.time = schedule[4]]
            ELSE base
       [] type = "interval" ->
            IF intervalPattern(schedule)
            THEN [base EXCEPT !.interval = ParseInt(schedule[2]), !.unit = schedule[3]]
            ELSE base

mainEventData(taskDetails, relativePath) ==
  LET schedule == taskDetails.schedule
      type == determineEventType(schedule)
      base == Event(type, "", "", NaN, "", taskDetails.message, FALSE, relativePath)
  IN CASE type = "daily" -> [base EXCEPT !.time = StripDailyAt(schedule)]
       [] type = "weekly" ->
            IF weeklyPattern(schedule)
            THEN [base EXCEPT !.weekday = schedule[2], !.time = schedule[4]]
            ELSE base
       [] type = "interval" ->
            IF intervalPattern(schedule)
            THEN [base EXCEPT !.interval = ParseInt(schedule[2]), !.unit = schedule[3]]
            ELSE base

\* events.set; scheduleEvent; scheduledFileEventIds.add
addEvent(X, eventId, ev) ==
  [events |-> MapSet(X.events, eventId, ev),
   sfe |-> X.sfe \cup {eventId},
   S |-> scheduleEvent(X.S, eventId, ev)]

RECURSIVE addReminders(_, _, _)
addReminders(X, eventData, n) ==
  IF n = 0 THEN X
  ELSE addReminders(
         addEvent(X, <<"reminder", NewUid(X)>>,
                  [eventData EXCEPT !.message = <<"Reminder: ">> \o @]),
         eventData, n - 1)

createEventsFromTask(X, taskDetails, relativePath) ==
  LET eventData == mainEventData(taskDetails, relativePath)
      X1 == addEvent(X, <<"task", NewUid(X)>>, eventData)
  IN addReminders(X1, eventData, taskDetails.reminders)

\* a file of the vault: frontmatter present and parseable, its fields
File(exists, fm, schedule, reminders, message, title) ==
  [exists |-> exists, fm |-> fm, schedule |-> schedule, reminders |-> reminders,
   message |-> message, title |-> title]
Absent == File(FALSE, FALSE, <<>>, 0, <<>>, <<>>)

\* extractFrontmatter, extractTaskDetails, createEventsFromTask on a content read
deriveFromContent(X, content, relativePath) ==
  IF ~content.exists \/ ~content.fm \/ content.schedule = <<>>
  THEN X
  ELSE createEventsFromTask(X,
         [schedule |-> content.schedule,
          message |-> IF content.message # <<>> THEN content.message
                      ELSE IF content.title # <<>> THEN content.title
                      ELSE <<"Task reminder">>,
          reminders |-> content.reminders],
         relativePath)

\* the names the tasks directory can hold, in readdir order, and the paths
\* path.join(DEFAULT_TASKS_DIR_RELATIVE, file) makes of them
FileNames == <<"a.md", "b.md", "notes.txt">>
JoinPath(file) ==
  CASE file = "a.md" -> "03 - Tasks/a.md"
    [] file = "b.md" -> "03 - Tasks/b.md"
    [] OTHER -> "03 - Tasks/notes.txt"
EndsWithMd(relativePath) == relativePath \in {"03 - Tasks/a.md", "03 - Tasks/b.md"}
Paths == {JoinPath(FileNames[i]) : i \in 1..Len(FileNames)}
MdPaths == {p \in Paths : EndsWithMd(p)}
PathA == "03 - Tasks/a.md"
PathB == "03 - Tasks/b.md"
tasksDir == "/vault/03 - Tasks"

\* global_recurring_events.json entries
GlobalData(id, type, time, weekday, interval, unit, message) ==
  [id |-> id, type |-> type, time |-> time, weekday |-> weekday,
   interval |-> interval, unit |-> unit, message |-> message]

validateEventData(data) ==
  /\ data.type # "" /\ data.message # <<>>
  /\ CASE data.type = "daily" -> data.time # ""
        [] data.type = "weekly" -> data.weekday # "" /\ data.time # ""
        [] data.type = "interval" -> data.interval # NaN /\ data.unit # ""
        [] OTHER -> FALSE

RECURSIVE loadGlobalEvents(_, _)
loadGlobalEvents(evs, data) ==
  IF data = <<>> THEN evs
  ELSE LET d == Head(data)
           next == IF validateEventData(d)
                   THEN MapSet(evs, d.id,
                          Event(d.type, d.time, d.weekday, d.interval, d.unit,
                                d.message, TRUE, ""))
                   ELSE evs
       IN loadGlobalEvents(next, Tail(data))

\* for (const [eventId, event] of this.events.entries()) if (event.isGlobalEvent())
RECURSIVE scheduleGlobals(_, _)
scheduleGlobals(S, entries) ==
  IF entries = <<>> THEN S
  ELSE scheduleGlobals(
         IF Head(entries).v.isGlobal
         THEN scheduleEvent(S, Head(entries).k, Head(entries).v) ELSE S,
         Tail(entries))

(***************************************************************************)
(* The loadAndScheduleAll pass.  L is the pass in flight: where it is      *)
(* suspended (pc), who started it (mode), the files still to process       *)
(* (todo), the file being processed (cur); listed and scanned record the   *)
(* directory listing it read and the files it has run through.             *)
(***************************************************************************)
Idle == [pc |-> "idle", mode |-> "", todo |-> <<>>, cur |-> "",
         listed |-> {}, scanned |-> {}]

\* loadAndScheduleAll up to its first suspension
beginPass(X, mode) ==
  [X |-> [X EXCEPT !.events = <<>>, !.sfe = {}],
   L |-> [Idle EXCEPT !.mode = mode,
                      !.pc = IF globalFile.exists THEN "readGlobals" ELSE "folderExists"],
   watch |-> FALSE]

\* the for loop of loadVaultTasks: skip to the next .md file and run
\* processVaultFileEvent on it up to its first await
nextFile(X, L) ==
  LET md == SelectSeq(L.todo, LAMBDA f : EndsWithMd(JoinPath(f))) IN
  IF md = <<>>
  THEN [X |-> X, L |-> [L EXCEPT !.pc = "done", !.todo = <<>>, !.cur = ""], watch |-> FALSE]
  ELSE [X |-> unscheduleFileEvents(X, JoinPath(Head(md))),
        L |-> [L EXCEPT !.pc = "fileExists", !.cur = JoinPath(Head(md)),
                        !.todo = Tail(md)],
        watch |-> FALSE]

Listing == SelectSeq(FileNames, LAMBDA f : files[JoinPath(f)].exists)

\* one resumption of the pass
passStep(X, L) ==
  CASE L.pc = "readGlobals" ->
         LET evs == loadGlobalEvents(X.events, globalFile.data) IN
         [X |-> [X EXCEPT !.events = evs, !.S = scheduleGlobals(X.S, evs)],
          L |-> [L EXCEPT !.pc = "folderExists"], watch |-> FALSE]
    [] L.pc = "folderExists" ->
         IF ~dirExists
         THEN [X |-> X, L |-> [L EXCEPT !.pc = "done"], watch |-> FALSE]
         ELSE [X |-> X, L |-> [L EXCEPT !.pc = "listFiles"], watch |-> TRUE]
    [] L.pc = "listFiles" ->
         IF ~dirExists
         THEN [X |-> X, L |-> [L EXCEPT !.pc = "done"], watch |-> FALSE]
         ELSE nextFile(X, [L EXCEPT !.todo = Listing,
                                    !.listed = {JoinPath(Listing[i]) : i \in 1..Len(Listing)}])
    [] L.pc = "fileExists" ->
         IF files[L.cur].exists
         THEN [X |-> X, L |-> [L EXCEPT !.pc = "readFile"], watch |-> FALSE]
         ELSE nextFile(X, [L EXCEPT !.scanned = @ \cup {L.cur}])
    [] L.pc = "readFile" ->
         nextFile(deriveFromContent(X, files[L.cur], L.cur),
                  [L EXCEPT !.scanned = @ \cup {L.cur}])

\* a processVaultFileEvent call in flight; solo records that no other
\* re-derivation of the same path has been in flight at the same time
Task(path, pc, solo) == [path |-> path, pc |-> pc, solo |-> solo]

MarkOverlap(B, path) ==
  LET f(s) == IF s.path = path THEN [s EXCEPT !.solo = FALSE] ELSE s
      img == {f(s) : s \in BagToSet(B)}
  IN [t \in img |->
        CopiesIn(t, B) +
        (IF t.path = path THEN CopiesIn([t EXCEPT !.solo = TRUE], B) ELSE 0)]

InFlight(path) ==
  (\E t \in BagToSet(tasks) : t.path = path) \/ loader.cur = path

DailyDsl == <<"daily", "at", "00:01">>

\* variant: start() without the daily reschedule job
ApplyNoDailyJob(R) ==
  LET done == R.L.pc = "done"
      startDone == done /\ R.L.mode = "start"
  IN /\ WithinBounds(R.X)
     /\ SetX(R.X)
     /\ loader' = IF done THEN [R.L EXCEPT !.pc = "idle"] ELSE R.L
     /\ tasks' = IF R.L.cur # "" THEN MarkOverlap(tasks, R.L.cur) ELSE tasks
     /\ isRunning' = IF startDone THEN TRUE ELSE isRunning
     /\ phase' = IF startDone /\ phase = "starting" THEN "started" ELSE phase
     /\ watchers' = IF R.watch THEN watchers \cup {tasksDir} ELSE watchers
     /\ openWatches' = IF R.watch /\ tasksDir \notin watchers
                       THEN openWatches \cup {tasksDir} ELSE openWatches

\* what follows the pass in the same turn: start() registers the daily
\* reschedule job and starts the scheduler
Apply(R) ==
  LET done == R.L.pc = "done"
      startDone == done /\ R.L.mode = "start"
      X2 == IF startDone
            THEN [R.X EXCEPT !.S = addJob(@, DailyDsl, DailyRescheduleId).S]
            ELSE R.X
  IN /\ WithinBounds(X2)
     /\ SetX(X2)
     /\ loader' = IF done THEN [R.L EXCEPT !.pc = "idle"] ELSE R.L
     /\ tasks' = IF R.L.cur # "" THEN MarkOverlap(tasks, R.L.cur) ELSE tasks
     /\ isRunning' = IF startDone THEN TRUE ELSE isRunning
     /\ phase' = IF startDone /\ phase = "starting" THEN "started" ELSE phase
     /\ watchers' = IF R.watch THEN watchers \cup {tasksDir} ELSE watchers
     /\ openWatches' = IF R.watch /\ tasksDir \notin watchers
                       THEN openWatches \cup {tasksDir} ELSE openWatches

(***************************************************************************)
(* Inputs of the model.                                                    *)
(***************************************************************************)
Schedules ==
  {<<"every", "Friday", "at", "18:00">>, <<"every", "45", "minutes">>, <<"sometime">>}
Contents ==
  {Absent, File(TRUE, FALSE, <<>>, 0, <<>>, <<>>), File(TRUE, TRUE, <<>>, 0, <<>>, <<>>),
   File(TRUE, TRUE, <<"daily", "at", "09:30">>, 1, <<>>, <<>>)}
  \cup {File(TRUE, TRUE, sch, 0, <<>>, <<>>) : sch \in Schedules}
Daily0930 == File(TRUE, TRUE, <<"daily", "at", "09:30">>, 0, <<>>, <<>>)
Notes == File(TRUE, FALSE, <<>>, 0, <<>>, <<>>)
\* the contents each file takes in the watch-bridge specification
ContentsOf(p) ==
  CASE p = "03 - Tasks/a.md" -> Contents
    [] p = "03 - Tasks/b.md" -> {Daily0930}
    [] OTHER -> {Notes}
\* the contents each file takes in the lifecycle specification
PassContentsOf(p) ==
  CASE p = "03 - Tasks/a.md" ->
         {Absent, File(TRUE, TRUE, <<"daily", "at", "09:30">>, 1, <<>>, <<>>),
          File(TRUE, TRUE, <<"every", "funday", "at", "09:30">>, 0, <<>>, <<>>),
          File(TRUE, TRUE, <<"sometime">>, 0, <<>>, <<>>)}
    [] p = "03 - Tasks/b.md" -> {Absent, Daily0930}
    [] OTHER -> {Notes}
GlobalConfigs ==
  {[exists |-> FALSE, data |-> <<>>],
   [exists |-> TRUE,
    data |-> <<GlobalData(<<"g1", 0>>, "interval", "", "", 45, "minutes", <<"stretch">>)>>]}
Ids == {<<"a", 0>>, <<"b", 0>>}
TimeStrs == {"09:30", "noon"}
WeekdayStrs == {"Friday", "funday"}
Units == {"minutes", "weeks"}
Dsls == {<<"daily", "at", "09:30">>, <<"every", "Friday", "at", "18:00">>,
         <<"every", "45", "minutes">>, <<"every", "funday", "at", "09:30">>,
         <<"sometime">>}
Crons == {<<"daily", "at", "09:30">>, <<"daily", "at", "25:99">>,
          <<"every", "45", "minutes">>, <<"sometime">>}

(***************************************************************************)
(* Initial states.                                                         *)
(***************************************************************************)
SchedInit ==
  /\ jobs = <<>> /\ timers = {} /\ watchers = {} /\ openWatches = {}
  /\ isRunning = FALSE
NotifInit ==
  /\ nJobs = <<>> /\ nTimers = {} /\ regTimeouts = {} /\ regIntervals = {}
EngineInit ==
  /\ events = <<>> /\ scheduledFileEventIds = {}
  /\ lastProcessed = [p \in Paths |-> NaN]
  /\ now = 0
  /\ tasks = EmptyBag /\ loader = Idle /\ phase = "new" /\ passes = 0 /\ changes = 0
\* no message is being processed
ToolIdle ==
  /\ store = <<>> /\ handler = <<>> /\ sent = <<>> /\ tg = <<>> /\ ctx = <<>>

ConvInit ==
  /\ llmText = <<>> /\ call = <<>>
  /\ runs = <<>> /\ execLog = <<>> /\ reg = <<>>
  /\ ToolIdle

Init ==
  /\ SchedInit /\ NotifInit /\ EngineInit /\ ConvInit
  /\ dirExists \in BOOLEAN
  /\ files \in [Paths -> UNION {PassContentsOf(p) : p \in Paths}]
  /\ \A p \in Paths : IF dirExists THEN files[p] \in PassContentsOf(p) ELSE files[p] = Absent
  /\ globalFile \in GlobalConfigs
  /\ svc = "recurring-events"
  /\ obs = Ret("none")

(***************************************************************************)
(* Actions of the engine.                                                  *)
(***************************************************************************)

\* RecurringEventsService.start()
Start ==
  /\ phase = "new" /\ loader.pc = "idle"
  /\ phase' = "starting"
  /\ passes' = passes + 1
  /\ LET R == beginPass(XCur, "start") IN
       /\ SetX(R.X) /\ loader' = R.L
  /\ obs' = Ret("none")
  /\ UNCHANGED <<convVars, svc, watchers, openWatches, isRunning, notifVars, lastProcessed, now,
                 files, dirExists, globalFile, tasks, changes>>

\* the pass in flight resumes from its await
PassResumes ==
  /\ loader.pc \notin {"idle", "done"}
  /\ Apply(passStep(XCur, loader))
  /\ obs' = Ret("none")
  /\ UNCHANGED <<convVars, svc, notifVars, lastProcessed, now, files, dirExists, globalFile,
                 passes, changes>>

\* handleTimeEvent: the event's message is sent, or the event is not found
handleTimeEvent(eventId) ==
  IF MapHas(events, eventId) THEN Ret("sent") ELSE Ret("not found")

\* a timer of the recurring-events scheduler fires: the daily reschedule job
\* starts a pass, an event's job runs handleTimeEvent
TimerFires(t) ==
  /\ t \in timers
  /\ IF t.id = DailyRescheduleId /\ phase # "new"
     THEN /\ loader.pc = "idle" /\ passes < MaxPasses
          /\ passes' = passes + 1
          /\ LET R == beginPass(XCur, "daily") IN SetX(R.X) /\ loader' = R.L
          /\ obs' = Ret("none")
     ELSE /\ obs' = handleTimeEvent(t.id)
          /\ UNCHANGED <<jobs, timers, events, scheduledFileEventIds, loader, passes>>
  /\ UNCHANGED <<convVars, svc, watchers, openWatches, isRunning, notifVars, lastProcessed, now,
                 files, dirExists, globalFile, tasks, phase, changes>>

\* variant: <= in place of <
DebouncedInclusive(relativePath) ==
  /\ lastProcessed[relativePath] # NaN
  /\ now - lastProcessed[relativePath] <= debounceInterval

Debounced(relativePath) ==
  /\ lastProcessed[relativePath] # NaN
  /\ now - lastProcessed[relativePath] < debounceInterval

Skipped == [t |-> "skipped", v |-> <<"", 0>>]
Handled(path, n) == [t |-> "handled", v |-> <<path, n>>]
EventsOf(evs, path) == SelectSeq(evs, LAMBDA e : e.v.taskPath = path)

\* variant: processVaultFileEvent without its unscheduleFileEvents call
HandleVaultFileEventNoRemoval(relativePath) ==
  /\ tasksDir \in openWatches
  /\ IF Debounced(relativePath)
     THEN /\ obs' = Skipped
          /\ UNCHANGED <<jobs, timers, events, scheduledFileEventIds, lastProcessed, tasks>>
     ELSE /\ lastProcessed' = [lastProcessed EXCEPT ![relativePath] = now]
          /\ UNCHANGED <<jobs, timers, events, scheduledFileEventIds>>
          /\ obs' = Handled(relativePath, 0)
          /\ IF EndsWithMd(relativePath)
             THEN /\ BagCardinality(tasks) < MaxInFlight
                  /\ tasks' = MarkOverlap(tasks, relativePath) (+)
                       SetToBag({Task(relativePath, "fileExists", ~InFlight(relativePath))})
             ELSE tasks' = tasks
  /\ UNCHANGED <<convVars, svc, watchers, openWatches, isRunning, notifVars, now, files, dirExists,
                 globalFile, loader, phase, passes, changes>>

\* the watcher's callback: handleVaultFileEvent(relativePath), and
\* processVaultFileEvent up to its first await
HandleVaultFileEvent(relativePath) ==
  /\ tasksDir \in openWatches
  /\ IF Debounced(relativePath)
     THEN /\ obs' = Skipped
          /\ UNCHANGED <<jobs, timers, events, scheduledFileEventIds, lastProcessed, tasks>>
     ELSE /\ lastProcessed' = [lastProcessed EXCEPT ![relativePath] = now]
          /\ SetX(unscheduleFileEvents(XCur, relativePath))
          /\ obs' = Handled(relativePath, Len(EventsOf(events, relativePath)))
          /\ IF EndsWithMd(relativePath)
             THEN /\ BagCardinality(tasks) < MaxInFlight
                  /\ tasks' = MarkOverlap(tasks, relativePath) (+)
                       SetToBag({Task(relativePath, "fileExists", ~InFlight(relativePath))})
             ELSE tasks' = tasks
  /\ UNCHANGED <<convVars, svc, watchers, openWatches, isRunning, notifVars, now, files, dirExists,
                 globalFile, loader, phase, passes, changes>>

\* a suspended processVaultFileEvent resumes from its await
TaskResumes(t) ==
  /\ BagIn(t, tasks)
  /\ LET rest == tasks (-) SetToBag({t}) IN
     CASE t.pc = "fileExists" ->
            /\ tasks' = IF files[t.path].exists
                        THEN rest (+) SetToBag({Task(t.path, "readFile", t.solo)})
                        ELSE rest
            /\ UNCHANGED <<jobs, timers, events, scheduledFileEventIds>>
       [] t.pc = "readFile" ->
            LET X == deriveFromContent(XCur, files[t.path], t.path) IN
            /\ WithinBounds(X)
            /\ SetX(X)
            /\ tasks' = rest
  /\ obs' = Ret("none")
  /\ UNCHANGED <<convVars, svc, watchers, openWatches, isRunning, notifVars, lastProcessed, now,
                 files, dirExists, globalFile, loader, phase, passes, changes>>

\* SchedulingService.stop()
stop ==
  /\ timers' = {t \in timers : t.tid \notin CancelledByStop(Cur)}
  /\ IF stopThrows(Cur)
     THEN /\ obs' = Ret("throw")
          /\ UNCHANGED <<jobs, watchers, openWatches, isRunning>>
     ELSE /\ jobs' = <<>> /\ watchers' = {} /\ openWatches' = {}
          /\ isRunning' = FALSE
          /\ obs' = Ret("void")

\* RecurringEventsService.stop(), also run by onModuleDestroy
Stop ==
  /\ phase # "new"
  /\ stop
  /\ phase' = "stopped"
  /\ UNCHANGED <<convVars, notifVars, svc, events, scheduledFileEventIds, lastProcessed, now, files,
                 dirExists, globalFile, tasks, loader, passes, changes>>

\* the environment: the vault changes, time passes
FileChange(p, c) ==
  /\ dirExists /\ c # files[p]
  /\ changes < MaxChanges
  /\ changes' = changes + 1
  /\ files' = [files EXCEPT ![p] = c]
  /\ obs' = Ret("none")
  /\ UNCHANGED <<convVars, svc, schedVars, notifVars, events, scheduledFileEventIds, lastProcessed,
                 now, dirExists, globalFile, tasks, loader, phase, passes>>

CreateDir ==
  /\ ~dirExists
  /\ dirExists' = TRUE
  /\ obs' = Ret("none")
  /\ UNCHANGED <<convVars, svc, schedVars, notifVars, events, scheduledFileEventIds, lastProcessed,
                 now, files, globalFile, tasks, loader, phase, passes, changes>>

Tick(d) ==
  /\ now + d <= MaxClock
  /\ now' = now + d
  /\ obs' = Ret("none")
  /\ UNCHANGED <<convVars, svc, schedVars, notifVars, events, scheduledFileEventIds, lastProcessed,
                 files, dirExists, globalFile, tasks, loader, phase, passes, changes>>

\* The lifecycle of the engine. The wall clock stands still here, so the
\* first watch event of a.md is processed and later ones are debounced; the
\* passing of time is part of WatchSpec.
Next ==
  \/ Start
  \/ PassResumes
  \/ \E t \in timers : TimerFires(t)
  \/ HandleVaultFileEvent(PathA)
  \/ \E t \in BagToSet(tasks) : TaskResumes(t)
  \/ Stop
  \/ \E c \in PassContentsOf(PathA) : FileChange(PathA, c)
  \/ CreateDir

Spec == Init /\ [][Next]_vars

(***************************************************************************)
(* The schedulers on their own: any sequence of calls of their public      *)
(* methods, and the firing of the timers they armed.                       *)
(***************************************************************************)
SchedSpecInit ==
  /\ SchedInit /\ NotifInit /\ EngineInit /\ ConvInit
  /\ dirExists = FALSE
  /\ files = [p \in Paths |-> Absent]
  /\ globalFile = [exists |-> FALSE, data |-> <<>>]
  /\ svc \in {"recurring-events", "notifications"}
  /\ obs = Ret("none")

CallScheduleDaily(timeStr, eventId) ==
  /\ svc = "recurring-events"
  /\ WithinApiTimers(scheduleDaily(Cur, timeStr, eventId))
  /\ SetSched(scheduleDaily(Cur, timeStr, eventId))
  /\ obs' = Ret("void")
  /\ UNCHANGED <<convVars, svc, watchers, openWatches, isRunning, notifVars, engineVars, svc>>

CallScheduleWeekly(weekdayStr, timeStr, eventId) ==
  /\ svc = "recurring-events"
  /\ WithinApiTimers(scheduleWeekly(Cur, weekdayStr, timeStr, eventId))
  /\ SetSched(scheduleWeekly(Cur, weekdayStr, timeStr, eventId))
  /\ obs' = Ret("void")
  /\ UNCHANGED <<convVars, svc, watchers, openWatches, isRunning, notifVars, engineVars, svc>>

CallScheduleInterval(interval, unit, eventId) ==
  /\ svc = "recurring-events"
  /\ WithinApiTimers(scheduleInterval(Cur, interval, unit, eventId))
  /\ SetSched(scheduleInterval(Cur, interval, unit, eventId))
  /\ obs' = Ret("void")
  /\ UNCHANGED <<convVars, svc, watchers, openWatches, isRunning, notifVars, engineVars, svc>>

CallAddJob(scheduleDsl, eventId) ==
  /\ svc = "recurring-events"
  /\ WithinApiTimers(addJob(Cur, scheduleDsl, eventId).S)
  /\ SetSched(addJob(Cur, scheduleDsl, eventId).S)
  /\ obs' = Ret(addJob(Cur, scheduleDsl, eventId).ret)
  /\ UNCHANGED <<convVars, svc, watchers, openWatches, isRunning, notifVars, engineVars, svc>>

CallUnschedule(eventId) ==
  /\ svc = "recurring-events"
  /\ SetSched(unschedule(Cur, eventId))
  /\ obs' = Ret("void")
  /\ UNCHANGED <<convVars, svc, watchers, openWatches, isRunning, notifVars, engineVars, svc>>

CallWatchDirectory(directoryPath) ==
  /\ svc = "recurring-events"
  /\ watchers' = watchers \cup {directoryPath}
  /\ openWatches' = IF directoryPath \in watchers THEN openWatches
                    ELSE openWatches \cup {directoryPath}
  /\ obs' = Ret("void")
  /\ UNCHANGED <<jobs, timers, isRunning, notifVars, engineVars, svc, convVars>>

\* SchedulingService.start()
CallStart ==
  /\ svc = "recurring-events"
  /\ isRunning' = TRUE
  /\ obs' = Ret("void")
  /\ UNCHANGED <<jobs, timers, watchers, openWatches, notifVars, engineVars, svc, convVars>>

\* SchedulingService.stop(), also run by onModuleDestroy
CallStop ==
  /\ svc = "recurring-events"
  /\ stop
  /\ UNCHANGED <<notifVars, engineVars, svc, convVars>>

\* a timer fires and runs callback(eventId)
CallbackRuns(t) ==
  /\ t \in timers
  /\ obs' = Fired(t.id)
  /\ UNCHANGED <<schedVars, notifVars, engineVars, svc, convVars>>

NCallAddJob(cronExpression, jobId) ==
  /\ svc = "notifications"
  /\ NWithinTimers(nAddJob(NCur, cronExpression, jobId).N)
  /\ SetNotif(nAddJob(NCur, cronExpression, jobId).N)
  /\ obs' = Ret(nAddJob(NCur, cronExpression, jobId).ret)
  /\ UNCHANGED <<schedVars, engineVars, svc, convVars>>

NCallUnschedule(jobId) ==
  /\ svc = "notifications"
  /\ SetNotif(nUnschedule(NCur, jobId).N)
  /\ obs' = Ret(nUnschedule(NCur, jobId).ret)
  /\ UNCHANGED <<schedVars, engineVars, svc, convVars>>

\* the first occurrence: the timeout fires, runs the job and arms the interval
NTimeoutFires(t) ==
  /\ t \in nTimers /\ t.kind = "timeout"
  /\ NWithinTimers(nTimeoutCallback(NCur, t))
  /\ SetNotif(nTimeoutCallback(NCur, t))
  /\ obs' = Fired(t.id)
  /\ UNCHANGED <<schedVars, engineVars, svc, convVars>>

NIntervalFires(t) ==
  /\ t \in nTimers /\ t.kind = "interval"
  /\ obs' = Fired(t.id)
  /\ UNCHANGED <<schedVars, notifVars, engineVars, svc, convVars>>

SchedNext ==
  \/ \E id \in Ids, ts \in TimeStrs : CallScheduleDaily(ts, id)
  \/ \E id \in Ids, w \in WeekdayStrs, ts \in TimeStrs : CallScheduleWeekly(w, ts, id)
  \/ \E id \in Ids, u \in Units : CallScheduleInterval(45, u, id)
  \/ \E id \in Ids, dsl \in Dsls : CallAddJob(dsl, id)
  \/ \E id \in Ids : CallUnschedule(id)
  \/ CallWatchDirectory(tasksDir)
  \/ CallStart
  \/ CallStop
  \/ \E t \in timers : CallbackRuns(t)
  \/ \E id \in Ids, cron \in Crons : NCallAddJob(cron, id)
  \/ \E id \in Ids : NCallUnschedule(id)
  \/ \E t \in nTimers : NTimeoutFires(t)
  \/ \E t \in nTimers : NIntervalFires(t)

SchedSpec == SchedSpecInit /\ [][SchedNext]_vars

(***************************************************************************)
(* The watch bridge on its own: the engine has started (the cold scan ran  *)
(* to completion with nothing interleaved), and from then on the vault     *)
(* changes, the watcher delivers events and event timers fire.             *)
(***************************************************************************)
RECURSIVE runPass(_)
runPass(R) == IF R.L.pc = "done" THEN R ELSE runPass(passStep(R.X, R.L))

Started ==
  LET X0 == [events |-> <<>>, sfe |-> {}, S |-> [jobs |-> <<>>, timers |-> {}]]
      R == runPass(beginPass(X0, "start"))
  IN [R.X EXCEPT !.S = addJob(@, DailyDsl, DailyRescheduleId).S]

WatchInit ==
  /\ NotifInit /\ ConvInit
  /\ dirExists = TRUE
  /\ files \in [Paths -> Contents \cup {Daily0930}]
  /\ \A p \in Paths : files[p] \in ContentsOf(p)
  /\ globalFile = [exists |-> FALSE, data |-> <<>>]
  /\ events = Started.events
  /\ scheduledFileEventIds = Started.sfe
  /\ jobs = Started.S.jobs
  /\ timers = Started.S.timers
  /\ watchers = {tasksDir} /\ openWatches = {tasksDir} /\ isRunning = TRUE
  /\ lastProcessed = [p \in Paths |-> NaN]
  /\ now = 0
  /\ tasks = EmptyBag /\ loader = Idle /\ phase = "started" /\ passes = 1
  /\ changes = 0
  /\ svc = "recurring-events"
  /\ obs = Ret("none")

WatchNext ==
  \/ \E p \in MdPaths : HandleVaultFileEvent(p)
  \/ \E t \in BagToSet(tasks) : TaskResumes(t)
  \/ \E c \in ContentsOf(PathA) : FileChange(PathA, c)
  \/ \E d \in {debounceInterval - 1, debounceInterval} : Tick(d)

WatchSpec == WatchInit /\ [][WatchNext]_vars

(***************************************************************************)
(* Properties.                                                             *)
(***************************************************************************)
LiveTimers(ts, id) == {t \in ts : t.id = id}

\* C1: after any sequence of register/unschedule calls there are never two
\* live timers for one id, and every live timer is the one the jobs map
\* records under its id.
C1_OneLiveTimerPerId ==
  /\ \A t1, t2 \in timers : t1.id = t2.id => t1 = t2
  /\ \A t \in timers : MapGet(jobs, t.id) = JobRef(t.tid)

\* C2: when a loadAndScheduleAll pass completes, every live job other than
\* the daily reschedule job has its id in the events map.
PassCompletes == loader.pc # "idle" /\ loader'.pc = "idle"
C2_NoJobOfEarlierPass ==
  [][PassCompletes =>
       \A t \in timers' : t.id # DailyRescheduleId => MapHas(events', t.id)]_vars

\* C3: while the engine is started (and not stopped) and no re-derivation
\* is in flight, every event id of the events map has exactly one live job
\* registered under it, whatever the schedule string.
Quiescent == tasks = EmptyBag /\ loader.pc = "idle"
C3_OneJobPerEvent ==
  (Quiescent /\ phase = "started") =>
    \A id \in MapKeys(events) :
      /\ Cardinality(LiveTimers(timers, id)) = 1
      /\ \A t \in LiveTimers(timers, id) : MapGet(jobs, id) = JobRef(t.tid)

\* C4: a file event delivered to handleVaultFileEvent for a task file that is
\* deleted or no longer parses removes every event of that path from the
\* events map and unschedules the job of each.
Gone(p) == ~files[p].exists \/ ~files[p].fm \/ files[p].schedule = <<>>
EventIds(evs, p) == {evs[i].k : i \in {j \in 1..Len(evs) : evs[j].v.taskPath = p}}
C4_DeliveredEventRemoves ==
  [][\A p \in MdPaths :
       (HandleVaultFileEvent(p) /\ Gone(p) /\ EventIds(events, p) # {}) =>
         /\ EventIds(events', p) = {}
         /\ \A id \in EventIds(events, p) :
              ~Truthy(MapGet(jobs', id)) /\ LiveTimers(timers', id) = {}]_vars

\* C4, amended: the same, for a file event that is not debounced (no event
\* of that path was processed less than 1000 ms earlier).
C4_UndebouncedEventRemoves ==
  [][\A p \in MdPaths :
       (/\ HandleVaultFileEvent(p) /\ Gone(p) /\ EventIds(events, p) # {}
        /\ (lastProcessed[p] = NaN \/ now - lastProcessed[p] >= 1000)) =>
         /\ EventIds(events', p) = {}
         /\ \A id \in EventIds(events, p) :
              ~Truthy(MapGet(jobs', id)) /\ LiveTimers(timers', id) = {}]_vars
\* the main event and the reminder of the deleted file a.md have just been removed
C4_Witness ==
  /\ obs = Handled(PathA, 2) /\ ~files[PathA].exists
  /\ EventIds(events, PathA) = {}
  /\ \A t \in timers : t.id[1] \notin {"task", "reminder"} \/ MapHas(events, t.id)

\* C5: a re-derivation that runs alone leaves, for its path, as many events
\* and as many live jobs as one derivation of the file's content from an
\* empty engine: running it again on an unchanged file changes neither.
EmptyX == [events |-> <<>>, sfe |-> {}, S |-> [jobs |-> <<>>, timers |-> {}]]
Once(p) == deriveFromContent(EmptyX, files[p], p)
LiveJobsOf(evs, ts, p) == {t \in ts : t.id \in EventIds(evs, p)}
Completes(t) == t.pc = "readFile" \/ ~files[t.path].exists
C5_IdempotentReplace ==
  [][\A t \in BagToSet(tasks) :
       (TaskResumes(t) /\ Completes(t) /\ t.solo) =>
         /\ Cardinality(EventIds(events', t.path))
              = Cardinality(EventIds(Once(t.path).events, t.path))
         /\ Cardinality(LiveJobsOf(events', timers', t.path))
              = Cardinality(LiveJobsOf(Once(t.path).events, Once(t.path).S.timers, t.path))]_vars
\* a.md, never changed since the cold scan derived it, has been re-derived
\* by a watch event and still has its main event and its reminder
C5_Witness ==
  /\ changes = 0 /\ tasks = EmptyBag /\ lastProcessed[PathA] # NaN
  /\ Cardinality(EventIds(events, PathA)) = 2
  /\ Cardinality(LiveJobsOf(events, timers, PathA)) = 2

\* C6: unschedule(id) removes the job of id from the jobs map and leaves no
\* live timer whose callback is bound to id, whatever kind was registered.
C6_UnscheduleSilences ==
  [][\A id \in Ids :
       /\ CallUnschedule(id) =>
            ~Truthy(MapGet(jobs', id)) /\ LiveTimers(timers', id) = {}
       /\ NCallUnschedule(id) =>
            ~MapHas(nJobs', id) /\ LiveTimers(nTimers', id) = {}]_vars

\* C7: unschedule on an id that is not in the jobs map changes nothing and
\* does not throw; it returns void in the recurring-events scheduler and
\* false in the notifications scheduler.
C7_UnknownIdNoOp ==
  [][\A id \in Ids :
       /\ (CallUnschedule(id) /\ ~MapHas(jobs, id)) =>
            (UNCHANGED schedVars /\ obs' = Ret("void"))
       /\ (NCallUnschedule(id) /\ ~MapHas(nJobs, id)) =>
            (UNCHANGED notifVars /\ obs' = Ret("false"))]_vars
\* unschedule of an unknown id has just returned false while a job of
\* another id stays scheduled
C7_Witness ==
  /\ svc = "notifications" /\ obs = Ret("false")
  /\ Len(nJobs) = 1 /\ Cardinality(nTimers) = 1

\* C8: stop() cancels every job and closes every watch without throwing, so
\* that the jobs and watchers maps are empty after it, also when it is
\* called a second time.
C8_StopCancelsAll ==
  [][Stop =>
       /\ jobs' = <<>> /\ timers' = {}
       /\ watchers' = {} /\ openWatches' = {}
       /\ obs' = Ret("void")]_vars

\* C9: handleVaultFileEvent ignores an event for a path whose last processed
\* event is less than 1000 ms old, and runs the re-derive-for-path flow on
\* every other event.
C9_DebounceByPath ==
  [][\A p \in MdPaths :
       HandleVaultFileEvent(p) =>
         IF lastProcessed[p] # NaN /\ now - lastProcessed[p] < 1000
         THEN UNCHANGED <<jobs, timers, events, scheduledFileEventIds,
                          lastProcessed, tasks>>
         ELSE /\ lastProcessed' = [lastProcessed EXCEPT ![p] = now]
              /\ EventIds(events', p) = {}
              /\ BagCardinality(tasks') = BagCardinality(tasks) + 1
              /\ \E t \in BagToSet(tasks') : t.path = p /\ t.pc = "fileExists"]_vars
\* at 999 ms an event for a.md, processed at 0, has just been skipped, while
\* the event for b.md at the same instant was processed
C9_Witness ==
  /\ obs = Skipped /\ now = 999
  /\ lastProcessed[PathA] = 0 /\ lastProcessed[PathB] = 999

\* C10: when start() completes, every .md file of the directory listing has
\* been run through re-derivation and the job daily_reschedule_vault_tasks
\* is live with the rule 00:01.
StartCompletes == loader.mode = "start" /\ loader.pc # "idle" /\ loader'.pc = "idle"
C10_ColdScanThenDailyJob ==
  [][StartCompletes =>
       /\ {p \in loader'.listed : EndsWithMd(p)} \subseteq loader'.scanned
       /\ \E t \in timers' :
            /\ t.id = DailyRescheduleId /\ t.rule = Rule(0, 1, NoDay)
            /\ MapGet(jobs', DailyRescheduleId) = JobRef(t.tid)]_vars
\* start() has completed after scanning both task files
C10_Witness ==
  /\ phase = "started" /\ passes = 1 /\ loader.pc = "idle"
  /\ loader.scanned = {PathA, PathB}
  /\ MapHas(jobs, DailyRescheduleId)



(***************************************************************************)
(* The conversation side: Gemini adapter, response parser, tools registry  *)
(* and message orchestrator.                                               *)
(*                                                                         *)
(* JSON text.  A text is a sequence of tokens: the structural characters,  *)
(* the double quote, one token of white space, and words.  JsonParse        *)
(* accepts the JSON grammar over these tokens; a parsed value is kept as    *)
(* the tokens of its text without the white space between them, strings    *)
(* with their escapes, so that two values are equal when their token       *)
(* sequences are.  A position of 0 stands for "no such position".          *)
(***************************************************************************)
Q == "\""                       \* the double quote
EscQ == "\\\""                  \* a quote escaped inside a JSON string
Ws == " "                       \* white space, new lines included
Lorem == "lorem*500"            \* a run of 500 characters of prose
Literals == {"null", "true", "false", "0", "1"}
SyntaxError == <<"SyntaxError">>   \* JSON.parse throws
JUndefined == <<>>                   \* undefined
JNull == <<"null">>

Min(X) == CHOOSE x \in X : \A y \in X : x <= y
Max(X) == CHOOSE x \in X : \A y \in X : x >= y

\* String.prototype.trim
trim(t) ==
  LET Cut(K) == IF K = {} THEN <<>> ELSE SubSeq(t, Min(K), Max(K))
  IN Cut({k \in 1..Len(t) : t[k] # Ws})
\* the first index from i on that holds c, 0 when there is none
IndexFrom(t, c, i) ==
  LET First(K) == IF K = {} THEN 0 ELSE Min(K)
  IN First({k \in i..Len(t) : t[k] = c})
\* indexOf(c) and lastIndexOf(c), 1-based, 0 when absent
indexOf(t, c) == IndexFrom(t, c, 1)
lastIndexOf(t, c) ==
  LET Last(K) == IF K = {} THEN 0 ELSE Max(K)
  IN Last({k \in 1..Len(t) : t[k] = c})
\* the number of characters of a text: a token counts one, the filler 500
CharLen(t) == Len(t) + 499 * Cardinality({k \in 1..Len(t) : t[k] = Lorem})
\* substring(0, n), cut at the last token that still fits
substring0(t, n) ==
  SubSeq(t, 1, Max({k \in 0..Len(t) : CharLen(SubSeq(t, 1, k)) <= n}))

\* the first index from i on that is not white space, Len + 1 at the end
SkipWs(t, i) ==
  LET First(K) == IF K = {} THEN Len(t) + 1 ELSE Min(K)
  IN First({k \in i..Len(t) : t[k] # Ws})
SkipAfter(t, e) == IF e = 0 THEN 0 ELSE SkipWs(t, e)
\* the index after the string that opens at i, 0 if it never closes
StringEnd(t, i) ==
  LET After(j) == IF j = 0 THEN 0 ELSE j + 1
  IN After(IndexFrom(t, Q, i + 1))

RECURSIVE ValueEnd(_, _), ItemsEnd(_, _, _), FieldsEnd(_, _, _)
\* the index after the JSON value that starts at i, 0 if there is none
ValueEnd(t, i) ==
  IF i = 0 \/ i > Len(t) THEN 0
  ELSE CASE t[i] = Q -> StringEnd(t, i)
         [] t[i] = "[" -> ItemsEnd(t, i + 1, TRUE)
         [] t[i] = "{" -> FieldsEnd(t, i + 1, TRUE)
         [] t[i] \in Literals -> i + 1
         [] OTHER -> 0
\* the index after the "]" that closes the items from i0 on
ItemsEnd(t, i0, first) ==
  LET After(j) ==
        IF j = 0 \/ j > Len(t) THEN 0
        ELSE IF t[j] = "]" THEN j + 1
        ELSE IF t[j] = "," THEN ItemsEnd(t, j + 1, FALSE)
        ELSE 0
      At(i) ==
        IF i > Len(t) THEN 0
        ELSE IF first /\ t[i] = "]" THEN i + 1
        ELSE After(SkipAfter(t, ValueEnd(t, i)))
  IN At(SkipWs(t, i0))
\* the index after the "}" that closes the fields from i0 on
FieldsEnd(t, i0, first) ==
  LET After(j) ==
        IF j = 0 \/ j > Len(t) THEN 0
        ELSE IF t[j] = "}" THEN j + 1
        ELSE IF t[j] = "," THEN FieldsEnd(t, j + 1, FALSE)
        ELSE 0
      Colon(c) ==
        IF c = 0 \/ c > Len(t) THEN 0
        ELSE IF t[c] # ":" THEN 0
        ELSE After(SkipAfter(t, ValueEnd(t, SkipWs(t, c + 1))))
      At(i) ==
        IF i > Len(t) THEN 0
        ELSE IF first /\ t[i] = "}" THEN i + 1
        ELSE IF t[i] # Q THEN 0
        ELSE Colon(SkipAfter(t, StringEnd(t, i)))
  IN At(SkipWs(t, i0))

\* the tokens of a JSON text without the white space outside its strings
InString(t, k) == Cardinality({j \in 1..(k - 1) : t[j] = Q}) % 2 = 1
Canon(t) ==
  LET Kept(K) ==
        [n \in 1..Cardinality(K) |->
           t[CHOOSE k \in K : Cardinality({j \in K : j <= k}) = n]]
  IN Kept({k \in 1..Len(t) : t[k] # Ws \/ InString(t, k)})

\* JSON.parse
JsonParse(t) ==
  LET From(i) ==
        LET To(e) == IF e # 0 /\ SkipWs(t, e) = Len(t) + 1
                     THEN Canon(SubSeq(t, i, e - 1))
                     ELSE SyntaxError
        IN To(ValueEnd(t, i))
  IN From(SkipWs(t, 1))

\* a JS string as a JSON string, and back
Escape(s) == [k \in 1..Len(s) |-> IF s[k] = Q THEN EscQ ELSE s[k]]
Unescape(s) == [k \in 1..Len(s) |-> IF s[k] = EscQ THEN Q ELSE s[k]]
Str(s) == <<Q>> \o Escape(s) \o <<Q>>
StrVal(v) == Unescape(SubSeq(v, 2, Len(v) - 1))

\* what JavaScript makes of a parsed value
IsArray(v) == v # <<>> /\ v[1] = "["
IsObject(v) == v # <<>> /\ v[1] = "{"
IsString(v) == v # <<>> /\ v[1] = Q
TypeofObject(v) == IsArray(v) \/ IsObject(v) \/ v = JNull
JTruthy(v) == v \notin {JUndefined, JNull, <<"false">>, <<"0">>, <<Q, Q>>}
Or(a, b) == IF JTruthy(a) THEN a ELSE b          \* a || b

\* the items of a parsed array
RECURSIVE ItemsFrom(_, _)
ItemsFrom(v, i) ==
  LET Cut(e) == <<SubSeq(v, i, e - 1)>>
                \o (IF v[e] = "," THEN ItemsFrom(v, e + 1) ELSE <<>>)
  IN IF v[i] = "]" THEN <<>> ELSE Cut(ValueEnd(v, i))
Items(v) == ItemsFrom(v, 2)
\* the fields of a parsed object, in the order of the text; none for a
\* value that is not an object
RECURSIVE FieldsFrom(_, _)
FieldsFrom(v, i) ==
  LET Cut(k, e) == <<[k |-> SubSeq(v, i, k - 1), v |-> SubSeq(v, k + 1, e - 1)]>>
                   \o (IF v[e] = "," THEN FieldsFrom(v, e + 1) ELSE <<>>)
      Key(k) == Cut(k, ValueEnd(v, k + 1))
  IN IF v[i] = "}" THEN <<>> ELSE Key(StringEnd(v, i))
Fields(v) == IF IsObject(v) THEN FieldsFrom(v, 2) ELSE <<>>
\* v.name, from the fields of v
Lookup(F, name) ==
  LET Last(K) == IF K = {} THEN JUndefined ELSE F[Max(K)].v
  IN Last({k \in 1..Len(F) : F[k].k = Str(<<name>>)})
Get(v, name) == Lookup(Fields(v), name)

\* JSON.stringify of { key: value } and of [ items ]
ObjectOf(key, value) == <<"{">> \o Str(<<key>>) \o <<":">> \o value \o <<"}">>
RECURSIVE Join(_)
Join(vs) ==
  IF vs = <<>> THEN <<>>
  ELSE IF Len(vs) = 1 THEN vs[1]
  ELSE vs[1] \o <<",">> \o Join(Tail(vs))
ArrayOf(vs) == <<"[">> \o Join(vs) \o <<"]">>

(***************************************************************************)
(* GoogleGenaiAdapter: what generateContent makes of the text the model    *)
(* returned before LlmProcessorService sees it.                            *)
(***************************************************************************)
adapterMessageCap == 1000
adapterApologyCap == 500
Apology == "I need to respond with proper tool calls. Here's what I meant to say: "
Ellipsis == "..."

\* a call of a tool as the code builds it: { tool, params }
ToolCall(tool, params) == [tool |-> tool, params |-> params]
\* JSON.stringify([{ tool: 'reply', data: { message } }])
ReplyJson(message) ==
  ArrayOf(<<<<"{">> \o Str(<<"tool">>) \o <<":">> \o Str(<<"reply">>) \o <<",">>
            \o Str(<<"data">>) \o <<":">> \o ObjectOf("message", Str(message))
            \o <<"}">>>>)

\* the matches of /\[[\s\S]*?\]/g from index p on
RECURSIVE BracketMatches(_, _)
BracketMatches(t, p) ==
  LET Close(i, j) ==
        IF j = 0 THEN <<>> ELSE <<SubSeq(t, i, j)>> \o BracketMatches(t, j + 1)
      Open(i) == IF i = 0 THEN <<>> ELSE Close(i, IndexFrom(t, "]", i + 1))
  IN Open(IndexFrom(t, "[", p))

\* item.tool && (item.data || item.params), from the fields of item; on a
\* null item the expression throws
ItemThrows(item) == item = JNull
ParamsOf(F) == Or(Lookup(F, "data"), Lookup(F, "params"))
HasCallShape(F) == JTruthy(Lookup(F, "tool")) /\ JTruthy(ParamsOf(F))
CallOf(F) == ToolCall(Lookup(F, "tool"), ParamsOf(F))

extractJsonArray(text) ==
  LET NonEmptyArray(parsed) == IsArray(parsed) /\ parsed # <<"[", "]">>
      Pick(cleanedText, matches, good) ==
        IF good # {} THEN matches[Min(good)]
        ELSE ReplyJson(substring0(cleanedText, adapterMessageCap))
      Third(cleanedText, matches) ==
        Pick(cleanedText, matches,
             {k \in 1..Len(matches) : NonEmptyArray(JsonParse(matches[k]))})
      Second(cleanedText, startIndex, endIndex) ==
        IF /\ startIndex # 0 /\ endIndex # 0 /\ endIndex > startIndex
           /\ JsonParse(SubSeq(cleanedText, startIndex, endIndex)) # SyntaxError
        THEN SubSeq(cleanedText, startIndex, endIndex)
        ELSE Third(cleanedText, BracketMatches(cleanedText, 1))
      First(cleanedText) ==
        IF /\ cleanedText # <<>>
           /\ cleanedText[1] = "[" /\ cleanedText[Len(cleanedText)] = "]"
           /\ JsonParse(cleanedText) # SyntaxError
        THEN cleanedText
        ELSE Second(cleanedText, indexOf(cleanedText, "["), lastIndexOf(cleanedText, "]"))
  IN First(trim(text))

processResponse(text) ==
  LET AllValid(items) ==
        /\ items # <<>>
        /\ \A k \in 1..Len(items) :
             ~ItemThrows(items[k]) /\ HasCallShape(Fields(items[k]))
      Valid(parsed) ==
        parsed # SyntaxError /\ IsArray(parsed) /\ AllValid(Items(parsed))
      Check(extractedJson) ==
        IF Valid(JsonParse(extractedJson))
        THEN extractedJson
        ELSE ReplyJson(<<Apology>> \o substring0(text, adapterApologyCap) \o <<Ellipsis>>)
  IN Check(extractJsonArray(text))

\* what genAI.models.generateContent settles with
SdkText(text) == [kind |-> "text", text |-> text]
SdkThrows == [kind |-> "throw", text |-> <<>>]
\* generateContent: null when the call threw, else { text: processed }
Null == [kind |-> "null", text |-> <<>>]
generateContent(sdk) ==
  IF sdk.kind = "throw" THEN Null ELSE SdkText(processResponse(sdk.text))

(***************************************************************************)
(* ToolsRegistryService: the handlers registered at construction.          *)
(***************************************************************************)
Registered == {"create_file", "modify_file", "delete_file", "reply", "finish"}
\* hasToolHandler of a JS string
hasToolHandler(name) == Len(name) = 1 /\ name[1] \in Registered

(***************************************************************************)
(* LlmProcessorService.extractToolCalls                                    *)
(***************************************************************************)
\* variant: the calls are collected from the last element to the first
RECURSIVE ObjectCallsReversed(_)
ObjectCallsReversed(items) ==
  LET Take(item, F) ==
        IF JTruthy(item) /\ TypeofObject(item) /\ HasCallShape(F)
        THEN <<CallOf(F)>> ELSE <<>>
  IN IF items = <<>> THEN <<>>
     ELSE ObjectCallsReversed(Tail(items)) \o Take(items[1], Fields(items[1]))

\* the first attempt's loop over the parsed array
RECURSIVE ObjectCalls(_)
ObjectCalls(items) ==
  LET Take(item, F) ==
        IF JTruthy(item) /\ TypeofObject(item) /\ HasCallShape(F)
        THEN <<CallOf(F)>> ELSE <<>>
  IN IF items = <<>> THEN <<>>
     ELSE Take(items[1], Fields(items[1])) \o ObjectCalls(Tail(items))

\* the second attempt's loop over one parsed array: the calls pushed, and
\* whether reading a null item threw before the end
RECURSIVE MatchCalls(_)
MatchCalls(items) ==
  LET Push(F, rest) ==
        [rest EXCEPT !.calls = (IF HasCallShape(F) THEN <<CallOf(F)>> ELSE <<>>) \o @]
  IN IF items = <<>> THEN [calls |-> <<>>, threw |-> FALSE]
     ELSE IF ItemThrows(items[1]) THEN [calls |-> <<>>, threw |-> TRUE]
     ELSE Push(Fields(items[1]), MatchCalls(Tail(items)))

\* the second attempt: every bracketed stretch of the text, until one of
\* them leaves toolCalls non-empty
RECURSIVE ScanMatches(_, _)
ScanMatches(matches, toolCalls) ==
  LET With(grown, threw) ==
        IF ~threw /\ grown # <<>>
        THEN [calls |-> grown, returned |-> TRUE]
        ELSE ScanMatches(Tail(matches), grown)
      Pushed(m) == With(toolCalls \o m.calls, m.threw)
      Try(parsedJson) ==
        IF parsedJson = SyntaxError \/ ~IsArray(parsedJson)
        THEN ScanMatches(Tail(matches), toolCalls)
        ELSE Pushed(MatchCalls(Items(parsedJson)))
  IN IF matches = <<>> THEN [calls |-> toolCalls, returned |-> FALSE]
     ELSE Try(JsonParse(matches[1]))

\* \w+ over one token
NonWords == {Q, EscQ, Ws, "[", "]", "{", "}", ",", ":", "tool:", "/tool", "my-tool",
             Apology, Ellipsis}
IsWord(x) == x \notin NonWords
OpensMarker(t, i) ==
  /\ i + 5 <= Len(t)
  /\ t[i] = "[" /\ t[i + 1] = "[" /\ t[i + 2] = "tool:" /\ IsWord(t[i + 3])
  /\ t[i + 4] = "]" /\ t[i + 5] = "]"
ClosesMarker(t, k) ==
  /\ k + 4 <= Len(t)
  /\ t[k] = "[" /\ t[k + 1] = "[" /\ t[k + 2] = "/tool"
  /\ t[k + 3] = "]" /\ t[k + 4] = "]"
\* the third attempt: /\[\[tool:(\w+)\]\]([\s\S]*?)\[\[\/tool\]\]/g from p on
RECURSIVE LegacyCalls(_, _)
LegacyCalls(t, p) ==
  LET Body(toolName, params, k) ==
        (IF params = SyntaxError THEN <<>> ELSE <<ToolCall(Str(<<toolName>>), params)>>)
        \o LegacyCalls(t, k + 5)
      Match(i, k) == Body(t[i + 3], JsonParse(trim(SubSeq(t, i + 6, k - 1))), k)
      From(i) == Match(i, Min({x \in (i + 6)..Len(t) : ClosesMarker(t, x)}))
      Among(starts) == IF starts = {} THEN <<>> ELSE From(Min(starts))
  IN Among({i \in p..Len(t) :
              OpensMarker(t, i) /\ \E k \in (i + 6)..Len(t) : ClosesMarker(t, k)})

\* cleanedText after lines 245-253
CutToBrackets(trimmed) ==
  LET Cut(startIndex, endIndex) ==
        IF startIndex # 0 /\ endIndex # 0 /\ endIndex > startIndex
        THEN SubSeq(trimmed, startIndex, endIndex)
        ELSE trimmed
  IN Cut(indexOf(trimmed, "["), lastIndexOf(trimmed, "]"))

extractToolCalls(text) ==
  LET Scanned(scan) ==
        IF scan.returned THEN scan.calls ELSE scan.calls \o LegacyCalls(text, 1)
      Parsed(parsedJson) ==
        IF parsedJson # SyntaxError
        THEN IF IsArray(parsedJson) THEN ObjectCalls(Items(parsedJson)) ELSE <<>>
        ELSE Scanned(ScanMatches(BracketMatches(text, 1), <<>>))
  IN Parsed(JsonParse(CutToBrackets(trim(text))))

(***************************************************************************)
(* LlmProcessorService.processUserMessage, from the point where the        *)
(* adapter's promise settles.                                              *)
(***************************************************************************)
FailedMessage == "Failed to generate content from LLM. Please try again."
UnclearMessage ==
  "I encountered an issue processing your request. Please try again with clearer instructions."
SorryPrefix == "Sorry, I encountered an error: "
Reply(message) == ToolCall(Str(<<"reply">>), ObjectOf("message", Str(message)))
\* { toolCalls, error }; extracted keeps what extractToolCalls returned at
\* line 108, for the properties of the parser
NotExtracted == [done |-> FALSE, calls |-> <<>>]
Extracted(calls) == [done |-> TRUE, calls |-> calls]
LlmResponse(toolCalls, error, extracted) ==
  [toolCalls |-> toolCalls, error |-> error, extracted |-> extracted]
NoError == <<>>

\* variant: the filter does not ask the registry
IsValidCallAnyTool(c) ==
  /\ JTruthy(c.tool) /\ IsString(c.tool)
  /\ JTruthy(c.params) /\ TypeofObject(c.params)

\* the filter of lines 114-133
IsValidCall(c) ==
  /\ JTruthy(c.tool) /\ IsString(c.tool)
  /\ JTruthy(c.params) /\ TypeofObject(c.params)
  /\ hasToolHandler(StrVal(c.tool))

\* the catch of lines 187-200
Caught(thrown, extracted) ==
  LlmResponse(<<Reply(<<SorryPrefix>> \o thrown)>>, thrown, extracted)

\* variant: the valid calls are returned even when the filter left none
processUserMessageNoApology(response, thrown) ==
  LET Validated(responseText, toolCalls, validToolCalls) ==
        IF thrown # NoError THEN Caught(thrown, Extracted(toolCalls))
        ELSE IF toolCalls # <<>>
        THEN LlmResponse(validToolCalls, NoError, Extracted(toolCalls))
        ELSE LlmResponse(<<Reply(responseText)>>, NoError, Extracted(toolCalls))
      Extract(responseText, toolCalls) ==
        Validated(responseText, toolCalls, SelectSeq(toolCalls, IsValidCall))
  IN IF response.kind = "null"
     THEN LlmResponse(<<Reply(<<FailedMessage>>)>>,
                      <<"Failed to generate content from LLM">>, NotExtracted)
     ELSE Extract(response.text, extractToolCalls(response.text))

\* thrown carries the message of an Error thrown by appendEntry once the
\* calls are extracted, NoError if nothing is thrown
processUserMessage(response, thrown) ==
  LET Validated(responseText, toolCalls, validToolCalls) ==
        IF thrown # NoError THEN Caught(thrown, Extracted(toolCalls))
        ELSE IF toolCalls # <<>>
        THEN IF validToolCalls # <<>>
             THEN LlmResponse(validToolCalls, NoError, Extracted(toolCalls))
             ELSE LlmResponse(<<Reply(<<UnclearMessage>>)>>, NoError, Extracted(toolCalls))
        ELSE LlmResponse(<<Reply(responseText)>>, NoError, Extracted(toolCalls))
      Extract(responseText, toolCalls) ==
        Validated(responseText, toolCalls, SelectSeq(toolCalls, IsValidCall))
  IN IF response.kind = "null"
     THEN LlmResponse(<<Reply(<<FailedMessage>>)>>,
                      <<"Failed to generate content from LLM">>, NotExtracted)
     ELSE Extract(response.text, extractToolCalls(response.text))

(* What the model may answer.  An answer is drawn by its parts and turned  *)
(* into text by TextOf: a JSON array of elements, or legacy markers, with  *)
(* prose before and after, or prose alone.                                 *)
(***************************************************************************)
MaxCalls == 2                   \* elements of one array, markers of one text

S(x) == Str(<<x>>)
Hi == ObjectOf("message", S("hi"))                  \* {"message":"hi"}
Tags == ObjectOf("tags", ArrayOf(<<S("a")>>))       \* {"tags":["a"]}
ListOfX == ArrayOf(<<S("x")>>)                      \* ["x"]
Broken == <<"{", Q, "a">>                           \* {"a
Absent2 == <<>>                                     \* the key is not there

\* an element of the array, or a marker: its tool name and its parameters
Part(tool, data, params) == [tool |-> tool, data |-> data, params |-> params]
Field(key, value) == IF value = Absent2 THEN <<>> ELSE <<Str(<<key>>) \o <<":">> \o value>>
\* {"tool": tool, "data": data, "params": params}, absent keys left out; a
\* part without a tool name is the bare value of its data
ElemJson(d) ==
  IF d.tool = "" THEN d.data
  ELSE <<"{">> \o Join(<<S("tool") \o <<":">> \o S(d.tool)>>
                       \o Field("data", d.data) \o Field("params", d.params))
       \o <<"}">>
\* [[tool:NAME]]body[[/tool]]
MarkerText(d) ==
  <<"[", "[", "tool:", d.tool, "]", "]">> \o d.data \o <<"[", "[", "/tool", "]", "]">>
RECURSIVE Concat(_)
Concat(ts) == IF ts = <<>> THEN <<>> ELSE ts[1] \o Concat(Tail(ts))

Answer(kind, before, parts, after) ==
  [kind |-> kind, before |-> before, parts |-> parts, after |-> after]
NoAnswer == Answer("none", <<>>, <<>>, <<>>)
ArrayJson(parts) == ArrayOf([k \in 1..Len(parts) |-> ElemJson(parts[k])])
TextOf(a) ==
  CASE a.kind = "array" -> a.before \o ArrayJson(a.parts) \o a.after
    [] a.kind = "legacy" ->
         a.before \o Concat([k \in 1..Len(a.parts) |-> MarkerText(a.parts[k])]) \o a.after
    [] OTHER -> a.before

\* elements with a tool name and a parameter object under data or params
CallElems ==
  {Part("reply", Absent2, Hi), Part("create_file", Tags, Absent2),
   Part("bogus", Absent2, Hi), Part("reply", Hi, Tags)}
\* elements that are not calls of a tool
OddElems ==
  {Part("reply", Absent2, ListOfX), Part("reply", Absent2, Absent2),
   Part("", JNull, Absent2)}
Elems == CallElems \cup OddElems
Markers ==
  {Part("create_file", Tags, Absent2), Part("reply", Hi, Absent2),
   Part("reply", Broken, Absent2), Part("my-tool", Hi, Absent2)}
SeqsUpTo(X, n) == UNION {[1..k -> X] : k \in 0..n}
PlainProse == {<<>>, <<"Sure", Ws>>}
BracketProse == {<<"Note", "[", "1", "]", Ws>>}
Before == PlainProse \cup BracketProse
After == {<<>>, <<Ws, "Done">>}
PlainTexts ==
  {<<>>, <<"hello">>, <<Ws, "hello", Ws>>, <<"see", "[", "1", "]">>,
   <<"-", "[", Ws, "]", "milk">>, <<Lorem, Lorem, "tail">>, <<Lorem, Lorem>>,
   <<"{", Q, "a", Q, ":", "1", "}">>, <<"he", Q, "llo">>}
\* a batch with an unregistered tool between two registered ones
MixedBatch ==
  <<Part("create_file", Tags, Absent2), Part("bogus", Absent2, Hi),
    Part("reply", Absent2, Hi)>>
Answers ==
  {Answer("array", b, ps, a) : b \in Before, ps \in SeqsUpTo(Elems, MaxCalls), a \in After}
  \cup {Answer("array", <<>>, MixedBatch, <<>>)}
  \cup {Answer("legacy", b, ps, <<>>) :
          b \in PlainProse, ps \in SeqsUpTo(Markers, MaxCalls) \ {<<>>}}
  \cup {Answer("plain", t, <<>>, <<>>) : t \in PlainTexts}
\* messages of the errors a collaborator throws
Errors == {<<"EACCES">>}

(***************************************************************************)
(* One call of processUserMessage: the code up to the await of the         *)
(* adapter, the adapter's own continuation when the SDK settles, and the   *)
(* code after the await.                                                   *)
(***************************************************************************)
\* history holds the roles of the entries the call has appended
LlmCall(pc, response, result, history) ==
  [pc |-> pc, response |-> response, result |-> result, history |-> history]
NoResult == LlmResponse(<<>>, NoError, NotExtracted)
NotCalled == [kind |-> "none", text |-> <<>>]     \* the adapter was not reached

\* variant: the fallback reply of a null response is appended as well
historyAfterAlways(history, response, thrown) ==
  IF thrown # NoError THEN history ELSE Append(history, "assistant")

\* the history after the await: the assistant entry of lines 136-141 or
\* 169-174, unless the response was null or appendEntry threw
historyAfter(history, response, thrown) ==
  IF response.kind = "null" \/ thrown # NoError THEN history
  ELSE Append(history, "assistant")

\* getHistory, buildSystemPrompt and appendEntry run before the adapter is
\* called; an error of theirs is caught by the method's own catch
ProcessUserMessage ==
  /\ call.pc = "idle"
  /\ \E thrown \in Errors \cup {NoError} :
       call' = IF thrown = NoError
               THEN LlmCall("awaiting", NotCalled, NoResult, <<"user">>)
               ELSE LlmCall("returned", NotCalled, Caught(thrown, NotExtracted), <<>>)
  /\ UNCHANGED <<schedVars, notifVars, engineVars, svc, obs, llmText, runs, execLog, reg, toolVars>>

\* GoogleGenaiAdapter.generateContent after its await
SdkSettles ==
  /\ call.pc = "awaiting"
  /\ \E a \in Answers, threw \in BOOLEAN :
       /\ llmText' = a
       /\ call' = LlmCall("settled",
                          generateContent(IF threw THEN SdkThrows ELSE SdkText(TextOf(a))),
                          NoResult, call.history)
  /\ UNCHANGED <<schedVars, notifVars, engineVars, svc, obs, runs, execLog, reg, toolVars>>

\* processUserMessage after its await
Resume ==
  /\ call.pc = "settled"
  /\ \E thrown \in Errors \cup {NoError} :
       call' = LlmCall("returned", call.response,
                       processUserMessage(call.response, thrown),
                       historyAfter(call.history, call.response, thrown))
  /\ UNCHANGED <<schedVars, notifVars, engineVars, svc, obs, llmText, runs, execLog, reg, toolVars>>

LlmInit ==
  /\ SchedInit /\ NotifInit /\ EngineInit
  /\ dirExists = FALSE
  /\ files = [p \in Paths |-> Absent]
  /\ globalFile = [exists |-> FALSE, data |-> <<>>]
  /\ svc = "recurring-events"
  /\ obs = Ret("none")
  /\ llmText = NoAnswer
  /\ call = LlmCall("idle", NotCalled, NoResult, <<>>)
  /\ runs = <<>> /\ execLog = <<>> /\ reg = <<>>
  /\ ToolIdle

LlmNext ==
  \/ ProcessUserMessage
  \/ SdkSettles
  \/ Resume

LlmSpec == LlmInit /\ [][LlmNext]_vars

(***************************************************************************)
(* Properties of the conversation side.                                    *)
(***************************************************************************)
Returned == call.pc = "returned"
ToolCalls == call.result.toolCalls
ExtractedCalls == call.result.extracted.calls
WasExtracted == call.result.extracted.done

C12_ReturnedCallsWellFormed ==
  Returned =>
    \A i \in DOMAIN ToolCalls :
      /\ IsString(ToolCalls[i].tool)
      /\ hasToolHandler(StrVal(ToolCalls[i].tool))
      /\ IsObject(ToolCalls[i].params)

\* the answer is a JSON array and nothing else, and each of its elements
\* has a tool name and a parameter object under data or params
ParamsOfPart(d) == IF d.data # Absent2 THEN d.data ELSE d.params
IsCallPart(d) == d.tool # "" /\ IsObject(ParamsOfPart(d))
IsCallArray(a) ==
  /\ a.kind = "array" /\ a.before = <<>> /\ a.after = <<>>
  /\ \A k \in DOMAIN a.parts : IsCallPart(a.parts[k])
\* one call per element, in the order of the array
CallsOfParts(parts) ==
  [k \in DOMAIN parts |-> ToolCall(S(parts[k].tool), ParamsOfPart(parts[k]))]

\* C13: for a text that is a valid JSON array of tool-call objects, each
\* with a tool name and a parameter object under data or params,
\* extractToolCalls yields one call per element, in array order, with the
\* element's tool and its parameter object; this holds for the parser
\* applied to the text and for what it extracted during the call.
C13_RoundTrip ==
  (Returned /\ WasExtracted /\ IsCallArray(llmText)) =>
    /\ extractToolCalls(TextOf(llmText)) = CallsOfParts(llmText.parts)
    /\ llmText.parts # <<>> => ExtractedCalls = CallsOfParts(llmText.parts)
\* two elements, the first with its parameters under data and a nested
\* array in them, came back as two calls in that order
C13_Witness ==
  /\ Returned /\ WasExtracted /\ IsCallArray(llmText)
  /\ llmText.parts = <<Part("create_file", Tags, Absent2), Part("reply", Absent2, Hi)>>
  /\ ExtractedCalls = <<ToolCall(S("create_file"), Tags), ToolCall(S("reply"), Hi)>>

\* the answer is a non-empty JSON array of tool-call objects with prose
\* before it, after it or both
IsWrappedCallArray(a) ==
  /\ a.kind = "array" /\ a.parts # <<>>
  /\ \A k \in DOMAIN a.parts : IsCallPart(a.parts[k])
  /\ (a.before # <<>> \/ a.after # <<>>)

\* C14: from a JSON tool-call array wrapped in explanatory prose the parser
\* extracts the same calls, in the same order, as from the bare array, both
\* when it is applied to the wrapped text and in what it extracted during
\* the call.
C14_ProseWrappedSameAsBare ==
  (Returned /\ WasExtracted /\ IsWrappedCallArray(llmText)) =>
    /\ extractToolCalls(TextOf(llmText)) = extractToolCalls(ArrayJson(llmText.parts))
    /\ ExtractedCalls = extractToolCalls(ArrayJson(llmText.parts))

\* the answer is written in the legacy marker format, every name a word
IsLegacyAnswer(a) ==
  /\ a.kind = "legacy" /\ a.parts # <<>>
  /\ \A k \in DOMAIN a.parts : IsWord(a.parts[k].tool)
WellFormedBody(d) == JsonParse(trim(d.data)) # SyntaxError
\* one call per marker whose body parses, in order of appearance
CallsOfMarkers(parts) ==
  LET good == SelectSeq(parts, WellFormedBody)
  IN [k \in DOMAIN good |-> ToolCall(S(good[k].tool), JsonParse(trim(good[k].data)))]

\* C15: from an answer in the legacy [[tool:NAME]]{json}[[/tool]] format
\* the parser yields one call per marker, in order of appearance, with tool
\* NAME and the parsed JSON as params; a marker with a malformed body
\* yields no call and the other markers still yield theirs.
C15_LegacyMarkers ==
  (Returned /\ WasExtracted /\ IsLegacyAnswer(llmText)) =>
    ExtractedCalls = CallsOfMarkers(llmText.parts)

\* the answer is prose alone: no JSON value and no legacy marker
IsPlainAnswer(a) == a.kind = "plain" /\ JsonParse(trim(a.before)) = SyntaxError

\* C16: for an answer that is not JSON and holds no legacy marker, a call
\* that returned without an error hands back exactly one reply whose
\* message is the text of the answer, cut at the cap when it is longer
\* (the white space around the text is not held against the code).
C16_PlainTextBecomesReply ==
  (Returned /\ WasExtracted /\ call.result.error = NoError /\ IsPlainAnswer(llmText)) =>
    ToolCalls = <<Reply(substring0(trim(llmText.before), adapterMessageCap))>>

\* the call names a tool of the registry
NamesRegistered(c) == IsString(c.tool) /\ hasToolHandler(StrVal(c.tool))
RegisteredOf(calls) == SelectSeq(calls, NamesRegistered)

\* C17: of the calls extracted from an answer, those naming a tool that is
\* not registered are dropped and the registered ones are handed back in
\* their order; when every extracted call is dropped, the result is one
\* synthetic reply.
C17_UnregisteredDropped ==
  (Returned /\ WasExtracted /\ call.result.error = NoError /\ ExtractedCalls # <<>>) =>
    IF RegisteredOf(ExtractedCalls) # <<>>
    THEN ToolCalls = RegisteredOf(ExtractedCalls)
    ELSE ToolCalls = <<Reply(<<UnclearMessage>>)>>
\* create_file, bogus, reply came back as create_file, reply
C17_Witness ==
  /\ Returned /\ call.result.error = NoError
  /\ Len(ExtractedCalls) = 3 /\ StrVal(ExtractedCalls[2].tool) = <<"bogus">>
  /\ ToolCalls = <<ToolCall(S("create_file"), Tags), ToolCall(S("reply"), Hi)>>

MaxBatch == 2                   \* tool calls of one LlmResponse

Returns(status, message) ==
  [kind |-> "returns", status |-> status, message |-> message, isError |-> FALSE]
\* throw new Error(text), or throw text when isError is FALSE
Throws(isError, text) ==
  [kind |-> "throws", status |-> "", message |-> <<text>>, isError |-> isError]
\* a promise of executeTool: resolved with { status, message } or rejected
ToolResult(status, message) == [status |-> status, message |-> message, rejected |-> FALSE]
Rejected(message) == [status |-> "", message |-> message, rejected |-> TRUE]
NoToolResult == ToolResult("", <<>>)

\* `${error.message || error}`
ErrorText(thrown) ==
  IF thrown.isError /\ thrown.message = <<"">> THEN <<"Error">> ELSE thrown.message

\* variant: what the handler throws is thrown on to the caller
executeToolRethrows(name, outcome) ==
  IF ~hasToolHandler(<<name>>)
  THEN ToolResult("error", <<"Tool '", name, "' not found">>)
  ELSE IF outcome.kind = "returns"
  THEN ToolResult(outcome.status, outcome.message)
  ELSE Rejected(ErrorText(outcome))

\* what executeTool(name, params) resolves with when the handler of the
\* name, if there is one, ends as outcome says
executeTool(name, outcome) ==
  IF ~hasToolHandler(<<name>>)
  THEN ToolResult("error", <<"Tool '", name, "' not found">>)
  ELSE IF outcome.kind = "returns"
  THEN ToolResult(outcome.status, outcome.message)
  ELSE ToolResult("error", <<"Error executing tool '", name, "': ">> \o ErrorText(outcome))

\* one processMessage call
RunIds == {1, 2}
NoChat == <<>>                  \* params without a chat_id
ChatOf(r) == <<"chat", r>>      \* message.chatId of the run
Run(pc, vaultFailed, response, i) ==
  [pc |-> pc, vaultFailed |-> vaultFailed, response |-> response, i |-> i]
OrchResponse(toolCalls, error) == [toolCalls |-> toolCalls, error |-> error]
NoResponse == OrchResponse(<<>>, NoError)
\* the tool the run is waiting for
ToolOf(run) == IF run.pc = "tool" THEN run.response.toolCalls[run.i] ELSE "reply"
Awaiting(run) == run.pc \in {"tool", "fallback", "catch"}

\* executeTool calls of a run, as they start and as they settle
CallStarted(i, tool, chatId) ==
  [ev |-> "start", i |-> i, tool |-> tool, status |-> "",
   chat_id |-> IF tool = "reply" THEN chatId ELSE NoChat]
CallSettled(i, tool, result) ==
  [ev |-> "end", i |-> i, tool |-> tool,
   status |-> IF result.rejected THEN "rejected" ELSE result.status,
   chat_id |-> NoChat]
\* the log of a run once the run has gone on to newRun
Logged(log, r, newRun) ==
  IF Awaiting(newRun) THEN Append(log, CallStarted(newRun.i, ToolOf(newRun), ChatOf(r)))
  ELSE log

\* variant: the error of the vault read is not caught
afterVaultUncaught(run, ok) ==
  IF ok THEN [run EXCEPT !.pc = "llm"] ELSE [run EXCEPT !.pc = "rejected", !.vaultFailed = TRUE]

\* processMessage, lines 41-47: a failed vault read is logged and the
\* message goes to the LLM without context
afterVault(run, ok) == [run EXCEPT !.pc = "llm", !.vaultFailed = ~ok]

\* lines 47-48 and 63-88 up to the first await of executeTool
afterLlm(run, response) ==
  IF response.toolCalls # <<>>
  THEN [run EXCEPT !.pc = "tool", !.response = response, !.i = 1]
  ELSE [run EXCEPT !.pc = "fallback", !.response = response, !.i = 0]

\* variant: the loop ends at the first result with status 'error'
afterToolStopOnError(run, result) ==
  IF result.rejected
  THEN IF run.pc = "catch" THEN [run EXCEPT !.pc = "rejected"]
       ELSE [run EXCEPT !.pc = "catch", !.i = 0]
  ELSE IF run.pc = "tool" /\ run.i < Len(run.response.toolCalls) /\ result.status # "error"
  THEN [run EXCEPT !.i = @ + 1]
  ELSE [run EXCEPT !.pc = "done"]

\* what follows the await of executeTool: the next call of the loop
\* (lines 65-79), the end of processMessage, or its catch (lines 49-55)
afterTool(run, result) ==
  IF result.rejected
  THEN IF run.pc = "catch" THEN [run EXCEPT !.pc = "rejected"]
       ELSE [run EXCEPT !.pc = "catch", !.i = 0]
  ELSE IF run.pc = "tool" /\ run.i < Len(run.response.toolCalls)
  THEN [run EXCEPT !.i = @ + 1]
  ELSE [run EXCEPT !.pc = "done"]

\* what the handlers do
Success == Returns("success", <<"ok">>)
Failure == Returns("error", <<"File not found">>)
RunOutcomes == {Success, Failure, Throws(TRUE, "EACCES")}
Outcomes == RunOutcomes \cup {Throws(TRUE, ""), Throws(FALSE, "boom")}
ToolNames == {"reply", "create_file", "bogus"}
\* what processUserMessage resolves with: calls of registered tools, or the
\* reply of its own catch together with the error
Batches == SeqsUpTo({"reply", "create_file"}, MaxBatch) \ {<<>>}
Responses ==
  {OrchResponse(b, NoError) : b \in Batches}
  \cup {OrchResponse(<<"reply">>, <<"Failed to generate content from LLM">>)}

\* the executeTool calls made from outside the orchestrator, the last of
\* them the one in flight or the one that settled last
MaxDirectCalls == 2
RegCall(pc, name, outcome, result) ==
  [pc |-> pc, name |-> name, outcome |-> outcome, result |-> result]
Last(s) == s[Len(s)]
Front(s) == SubSeq(s, 1, Len(s) - 1)

otherVars == <<schedVars, notifVars, engineVars, svc, obs, llmText, call, toolVars>>

\* processMessage up to await readAllMarkdownFiles
ProcessMessage(r) ==
  /\ runs[r].pc = "idle"
  /\ runs' = [runs EXCEPT ![r].pc = "vault"]
  /\ UNCHANGED <<otherVars, execLog, reg>>

VaultSettles(r) ==
  /\ runs[r].pc = "vault"
  /\ \E ok \in BOOLEAN : runs' = [runs EXCEPT ![r] = afterVault(@, ok)]
  /\ UNCHANGED <<otherVars, execLog, reg>>

\* processUserMessage resolves and executeToolCalls starts its first call
LlmSettles(r) ==
  /\ runs[r].pc = "llm"
  /\ \E response \in Responses :
       LET newRun == afterLlm(runs[r], response)
       IN /\ runs' = [runs EXCEPT ![r] = newRun]
          /\ execLog' = [execLog EXCEPT ![r] = Logged(@, r, newRun)]
  /\ UNCHANGED <<otherVars, reg>>

\* the executeTool call a run waits for settles and the run goes on
ToolSettles(r) ==
  /\ Awaiting(runs[r])
  /\ \E outcome \in RunOutcomes :
       LET Go(result, newRun) ==
             /\ runs' = [runs EXCEPT ![r] = newRun]
             /\ execLog' = [execLog EXCEPT
                  ![r] = Logged(Append(@, CallSettled(runs[r].i, ToolOf(runs[r]), result)),
                                r, newRun)]
           With(result) == Go(result, afterTool(runs[r], result))
       IN With(executeTool(ToolOf(runs[r]), outcome))
  /\ UNCHANGED <<otherVars, reg>>

\* executeTool called with any name
CallExecuteTool ==
  /\ Len(reg) < MaxDirectCalls
  /\ IF reg = <<>> THEN TRUE ELSE Last(reg).pc # "await"
  /\ \E name \in ToolNames :
       reg' = Append(reg, RegCall("await", name, Success, NoToolResult))
  /\ UNCHANGED <<otherVars, runs, execLog>>

ExecuteToolSettles ==
  /\ reg # <<>> /\ Last(reg).pc = "await"
  /\ \E outcome \in Outcomes :
       LET Done(result) ==
             reg' = Append(Front(reg),
                           RegCall(IF result.rejected THEN "rejected" ELSE "returned",
                                   Last(reg).name, outcome, result))
       IN Done(executeTool(Last(reg).name, outcome))
  /\ UNCHANGED <<otherVars, runs, execLog>>

RegInit ==
  /\ SchedInit /\ NotifInit /\ EngineInit
  /\ dirExists = FALSE
  /\ files = [p \in Paths |-> Absent]
  /\ globalFile = [exists |-> FALSE, data |-> <<>>]
  /\ svc = "recurring-events"
  /\ obs = Ret("none")
  /\ ConvInit

OrchInit ==
  /\ SchedInit /\ NotifInit /\ EngineInit
  /\ dirExists = FALSE
  /\ files = [p \in Paths |-> Absent]
  /\ globalFile = [exists |-> FALSE, data |-> <<>>]
  /\ svc = "recurring-events"
  /\ obs = Ret("none")
  /\ llmText = <<>> /\ call = <<>>
  /\ runs = [r \in RunIds |-> Run("idle", FALSE, NoResponse, 0)]
  /\ execLog = [r \in RunIds |-> <<>>]
  /\ reg = <<>>
  /\ ToolIdle

OrchNext ==
  \/ \E r \in RunIds : ProcessMessage(r)
  \/ \E r \in RunIds : VaultSettles(r)
  \/ \E r \in RunIds : LlmSettles(r)
  \/ \E r \in RunIds : ToolSettles(r)

OrchSpec == OrchInit /\ [][OrchNext]_vars

RegNext ==
  \/ CallExecuteTool
  \/ ExecuteToolSettles

RegSpec == RegInit /\ [][RegNext]_vars

(***************************************************************************)
(* Properties of the registry and of the orchestrator.                     *)
(***************************************************************************)
\* the text is a part of the message; the empty text is a part of any
Contains(message, text) == text = "" \/ \E k \in DOMAIN message : message[k] = text
HandlerThrew(c) == hasToolHandler(<<c.name>>) /\ c.outcome.kind = "throws"

\* C18: executeTool never throws.  For a name without a handler it returns
\* { status: 'error', message: "Tool '<name>' not found" } whatever a
\* handler would have done, so no handler was invoked; when the handler
\* throws, it returns a result of status 'error' whose message contains
\* the text of what was thrown.
C18_ExecuteNeverThrows ==
  \A k \in DOMAIN reg :
    /\ reg[k].pc # "rejected"
    /\ reg[k].pc = "returned" =>
         /\ ~hasToolHandler(<<reg[k].name>>) =>
              reg[k].result = ToolResult("error", <<"Tool '", reg[k].name, "' not found">>)
         /\ HandlerThrew(reg[k]) =>
              /\ reg[k].result.status = "error"
              /\ \A j \in DOMAIN reg[k].outcome.message :
                   Contains(reg[k].result.message, reg[k].outcome.message[j])
\* a call of an unknown name came back with the not-found result although
\* a handler would have returned success, and a call whose handler threw
\* EACCES came back with an error result naming EACCES
C18_Witness ==
  /\ Len(reg) = 2
  /\ reg[1].pc = "returned" /\ reg[1].name = "bogus" /\ reg[1].outcome = Success
  /\ reg[1].result.status = "error"
  /\ reg[2].pc = "returned" /\ reg[2].name = "reply"
  /\ reg[2].outcome = Throws(TRUE, "EACCES")
  /\ Contains(reg[2].result.message, "EACCES")

\* the log of a run: each call of the batch starts once, in list order,
\* and settles before the next one starts
InListOrder(run, log) ==
  /\ \A k \in DOMAIN log :
       IF k % 2 = 1
       THEN /\ log[k].ev = "start" /\ log[k].i = (k + 1) \div 2
            /\ log[k].i \in DOMAIN run.response.toolCalls
            /\ log[k].tool = run.response.toolCalls[log[k].i]
       ELSE /\ log[k].ev = "end" /\ log[k].i = log[k - 1].i
            /\ log[k].tool = log[k - 1].tool
  /\ Len(log) <= 2 * Len(run.response.toolCalls)
  /\ run.pc = "done" => Len(log) = 2 * Len(run.response.toolCalls)

\* C19: within one processMessage run every call of the batch is executed
\* exactly once, one after the other and in list order (call i+1 starts
\* only after call i has returned), and an error result of an earlier call
\* does not stop the later ones; this holds for each run while the runs
\* interleave.
C19_SequentialInOrder == \A r \in RunIds : InListOrder(runs[r], execLog[r])
\* both runs are in the middle of a batch of two; the first call of run 1
\* ended with an error and its second call has started
C19_Witness ==
  /\ runs[1].pc = "tool" /\ runs[1].i = 2 /\ Len(execLog[1]) = 3
  /\ execLog[1][2].status = "error" /\ execLog[1][3].ev = "start"
  /\ runs[2].pc = "tool" /\ runs[2].i = 2 /\ Len(execLog[2]) = 3

\* executeTool('reply', ...) was started for the chat of the run
RepliedTo(r) ==
  \E k \in DOMAIN execLog[r] :
    /\ execLog[r][k].ev = "start" /\ execLog[r][k].tool = "reply"
    /\ execLog[r][k].chat_id = ChatOf(r)
ToolFailed(r) ==
  \E k \in DOMAIN execLog[r] : execLog[r][k].ev = "end" /\ execLog[r][k].status = "error"
Failed(r) == runs[r].vaultFailed \/ runs[r].response.error # NoError \/ ToolFailed(r)

Backtick == "(backtick)"
vaultContextCap == 150000
TruncationMarker ==
  <<"\n", ".", ".", ".", " ", "(", "t", "r", "u", "n", "c", "a", "t", "e", "d", ")">>

Piece(of, len) == [of |-> of, len |-> len]
NonEmpty(pieces) == SelectSeq(pieces, LAMBDA r : r.len > 0)

RECURSIVE Length(_)
Length(s) == IF s = <<>> THEN 0 ELSE Head(s).len + Length(Tail(s))

\* s.substring(0, n)
RECURSIVE Substring0(_, _)
Substring0(s, n) ==
  IF s = <<>> \/ n <= 0 THEN <<>>
  ELSE IF Head(s).len <= n
  THEN <<Head(s)>> \o Substring0(Tail(s), n - Head(s).len)
  ELSE <<Piece(Head(s).of, n)>>

\* a file of the vault: its path with the length of the path, and the
\* length of its content
VaultFile(path, pathLen, contentLen) ==
  [path |-> path, pathLen |-> pathLen, contentLen |-> contentLen]

\* `File: ${path}\n\n` + three backticks + `\n${content}\n` + three
\* backticks + `\n\n`
ContextPart(f) ==
  NonEmpty(<< Piece(<<f.path, "File: ">>, Len(<<"F", "i", "l", "e", ":", " ">>)),
              Piece(<<f.path, "path">>, f.pathLen),
              Piece(<<f.path, "open">>, Len(<<"\n", "\n", Backtick, Backtick, Backtick, "\n">>)),
              Piece(<<f.path, "content">>, f.contentLen),
              Piece(<<f.path, "close">>, Len(<<"\n", Backtick, Backtick, Backtick, "\n", "\n">>)) >>)

\* vaultContextParts.join('')
RECURSIVE Joined(_)
Joined(vaultFiles) ==
  IF vaultFiles = <<>> THEN <<>>
  ELSE ContextPart(Head(vaultFiles)) \o Joined(Tail(vaultFiles))

MarkerPiece == Piece(<<"", "marker">>, Len(TruncationMarker))
NoContext == <<"undefined">>

\* variant: the cut is made, the marker is not appended
vaultContextOfNoMarker(vaultFiles) ==
  IF vaultFiles = <<>> THEN NoContext
  ELSE LET joined == Joined(vaultFiles)
       IN  IF Length(joined) > vaultContextCap
           THEN Substring0(joined, vaultContextCap)
           ELSE joined

vaultContextOf(vaultFiles) ==
  IF vaultFiles = <<>> THEN NoContext
  ELSE LET joined == Joined(vaultFiles)
       IN  IF Length(joined) > vaultContextCap
           THEN Append(Substring0(joined, vaultContextCap), MarkerPiece)
           ELSE joined

\* the vaults of the model: a.md and b.md, each absent or of one of these
\* lengths; a.md alone is exactly at the cap with 149,978 characters
ContentLengths == {0, 1, 12, 74978, 149977, 149978, 149979, 150000, 200000, 400000}
VaultOf(a, b) ==
  (IF a = NaN THEN <<>> ELSE <<VaultFile("a.md", 4, a)>>)
  \o (IF b = NaN THEN <<>> ELSE <<VaultFile("b.md", 4, b)>>)
Vaults == {VaultOf(a, b) : a, b \in ContentLengths \cup {NaN}}

Context(vaultFiles, vaultContext) ==
  [vaultFiles |-> vaultFiles, vaultContext |-> vaultContext]

ctxOthers ==
  <<schedVars, notifVars, engineVars, svc, obs, llmText, call, runs, execLog,
    reg, store, handler, sent, tg>>

\* processMessage from the resolved readAllMarkdownFiles to the call of
\* processUserMessage
BuildVaultContext(vaultFiles) ==
  /\ ctx' = Context(vaultFiles, vaultContextOf(vaultFiles))
  /\ UNCHANGED ctxOthers

CtxInit ==
  /\ SchedInit /\ NotifInit /\ EngineInit /\ ConvInit
  /\ dirExists = FALSE
  /\ files = [p \in Paths |-> Absent]
  /\ globalFile = [exists |-> FALSE, data |-> <<>>]
  /\ svc = "recurring-events"
  /\ obs = Ret("none")

CtxNext == \E vaultFiles \in Vaults : BuildVaultContext(vaultFiles)

CtxSpec == CtxInit /\ [][CtxNext]_vars

(***************************************************************************)
(* Properties of the vault context.                                        *)
(***************************************************************************)
HasContext == ctx # <<>> /\ ctx.vaultContext # NoContext
\* p is the beginning of s, n characters long
IsPrefix(p, s, n) ==
  /\ Length(p) = n
  /\ Len(p) <= Len(s)
  /\ \A i \in 1..Len(p) :
       /\ p[i].of = s[i].of
       /\ p[i].len <= s[i].len
       /\ i < Len(p) => p[i].len = s[i].len

\* C29: if the concatenated contents exceed 150,000 characters the context
\* is its first 150,000 characters followed by the truncation marker,
\* otherwise it is the concatenation unchanged; it is never longer than
\* 150,000 characters plus the marker.
C29_ContextTruncated ==
  HasContext =>
    LET joined == Joined(ctx.vaultFiles)
        context == ctx.vaultContext
    IN  /\ Length(context) <= 150000 + Len(TruncationMarker)
        /\ IF Length(joined) > 150000
           THEN /\ context[Len(context)] = MarkerPiece
                /\ IsPrefix(SubSeq(context, 1, Len(context) - 1), joined, 150000)
           ELSE context = joined

C29_Witness ==
  /\ HasContext
  /\ ctx.vaultFiles = <<VaultFile("a.md", 4, 149979)>>
  /\ Length(ctx.vaultContext) = 150000 + Len(TruncationMarker)

(***************************************************************************)
(* The reply tool (ReplyToolHandler).  A parameter is a JSON value the     *)
(* model answered with: absent, a number, or a string kept as its          *)
(* sequence of characters.                                                 *)
(***************************************************************************)
JsUndefined == [t |-> "undefined"]
JsNumber(n) == [t |-> "number", n |-> n]
JsString(s) == [t |-> "string", s |-> s]

\* !v of JavaScript
Falsy(v) ==
  CASE v.t = "undefined" -> TRUE
    [] v.t = "number" -> v.n = 0
    [] v.t = "string" -> v.s = <<>>

DecDigits == <<"0", "1", "2", "3", "4", "5", "6", "7", "8", "9">>
IsDecDigit(c) == \E d \in 1..Len(DecDigits) : DecDigits[d] = c
DecValue(c) == (CHOOSE d \in 1..Len(DecDigits) : DecDigits[d] = c) - 1

NotANumber == [nan |-> TRUE, n |-> 0]
Parsed(n) == [nan |-> FALSE, n |-> n]

\* the value of the longest prefix of decimal digits of s; NaN when empty
RECURSIVE DigitsPrefix(_, _, _)
DigitsPrefix(s, acc, seen) ==
  IF s # <<>> /\ IsDecDigit(Head(s))
  THEN DigitsPrefix(Tail(s), acc * 10 + DecValue(Head(s)), TRUE)
  ELSE IF seen THEN Parsed(acc) ELSE NotANumber

RECURSIVE SkipSpaces(_)
SkipSpaces(s) == IF s # <<>> /\ Head(s) = " " THEN SkipSpaces(Tail(s)) ELSE s

\* parseInt(v, 10): leading blanks, an optional sign, then decimal digits.
\* A number is first written in decimal, which for an integer reads back
\* as itself.
parseInt(v) ==
  CASE v.t = "undefined" -> NotANumber
    [] v.t = "number" -> Parsed(v.n)
    [] v.t = "string" ->
         LET s == SkipSpaces(v.s)
         IN  IF s # <<>> /\ Head(s) = "-"
             THEN LET p == DigitsPrefix(Tail(s), 0, FALSE)
                  IN  IF p.nan THEN p ELSE Parsed(0 - p.n)
             ELSE IF s # <<>> /\ Head(s) = "+"
                  THEN DigitsPrefix(Tail(s), 0, FALSE)
                  ELSE DigitsPrefix(s, 0, FALSE)

ReplyParams(message, chat_id, user_id) ==
  [message |-> message, chat_id |-> chat_id, user_id |-> user_id]

\* what execute does before its await: a result, or one call of
\* SendMessageService.sendMessage(to, message, 'Markdown')
Done(status, message) == [kind |-> "done", status |-> status, message |-> message]
Send(to, message, failure) ==
  [kind |-> "send", to |-> to, message |-> message, failure |-> failure]

\* variant: a chat_id that does not parse falls through to user_id
replyStepFallsBack(params) ==
  IF Falsy(params.message)
  THEN Done("error", "Missing required parameter: message")
  ELSE IF Falsy(params.chat_id) /\ Falsy(params.user_id)
  THEN Done("error", "Missing required parameter: either chat_id or user_id")
  ELSE IF ~Falsy(params.chat_id) /\ ~parseInt(params.chat_id).nan
  THEN Send(parseInt(params.chat_id).n, params.message, "Failed to send reply")
  ELSE IF parseInt(params.user_id).nan
  THEN Done("error", "Invalid user_id")
  ELSE Send(parseInt(params.user_id).n, params.message,
            "Failed to send reply to user")

replyStep(params) ==
  IF Falsy(params.message)
  THEN Done("error", "Missing required parameter: message")
  ELSE IF Falsy(params.chat_id) /\ Falsy(params.user_id)
  THEN Done("error", "Missing required parameter: either chat_id or user_id")
  ELSE IF ~Falsy(params.chat_id)
  THEN IF parseInt(params.chat_id).nan
       THEN Done("error", "Invalid chat_id")
       ELSE Send(parseInt(params.chat_id).n, params.message,
                 "Failed to send reply")
  ELSE IF parseInt(params.user_id).nan
  THEN Done("error", "Invalid user_id")
  ELSE Send(parseInt(params.user_id).n, params.message,
            "Failed to send reply to user")

\* one execution of the handler
ReplyCall(pc, params, step, result) ==
  [pc |-> pc, params |-> params, step |-> step, result |-> result]
NoReplyResult == Done("none", "")

\* one call of SendMessageService.sendMessage: the recipient, the text and
\* the parse mode
SentMessage(to, message, parseMode) ==
  [to |-> to, message |-> message, parseMode |-> parseMode]

MaxReplies == 1

Messages == {JsUndefined, JsString(<<>>), JsString(<<"h", "i">>)}
ChatIds ==
  {JsUndefined, JsNumber(0), JsNumber(42), JsString(<<>>),
   JsString(<<"4", "2">>), JsString(<<"-", "7">>), JsString(<<"a", "b", "c">>)}
UserIds ==
  {JsUndefined, JsNumber(5), JsString(<<"9">>), JsString(<<"m", "e">>)}

replyOthers ==
  <<schedVars, notifVars, engineVars, svc, obs, llmText, call, runs, execLog,
    reg, store, tg, ctx>>

\* execute(params) up to its return or its await
ReplyExecute ==
  /\ Len(handler) < MaxReplies
  /\ IF handler = <<>> THEN TRUE ELSE handler[Len(handler)].pc = "returned"
  /\ \E m \in Messages, c \in ChatIds, u \in UserIds :
       LET params == ReplyParams(m, c, u)
           step == replyStep(params)
       IN  IF step.kind = "done"
           THEN /\ handler' = Append(handler, ReplyCall("returned", params, step, step))
                /\ UNCHANGED sent
           ELSE /\ handler' = Append(handler,
                            ReplyCall("await", params, step, NoReplyResult))
                /\ sent' = Append(sent,
                            SentMessage(step.to, step.message, "Markdown"))
  /\ UNCHANGED replyOthers

\* sendMessage resolves; it catches every error and resolves to false
ReplySendSettles ==
  /\ handler # <<>>
  /\ IF handler = <<>> THEN FALSE ELSE handler[Len(handler)].pc = "await"
  /\ \E ok \in BOOLEAN :
       LET c == handler[Len(handler)]
           result == IF ok THEN Done("success", "Reply sent successfully")
                     ELSE Done("error", c.step.failure)
       IN  handler' = [handler EXCEPT ![Len(handler)] =
                      ReplyCall("returned", c.params, c.step, result)]
  /\ UNCHANGED <<sent, replyOthers>>

ReplyInit ==
  /\ SchedInit /\ NotifInit /\ EngineInit
  /\ dirExists = FALSE
  /\ files = [p \in Paths |-> Absent]
  /\ globalFile = [exists |-> FALSE, data |-> <<>>]
  /\ svc = "recurring-events"
  /\ obs = Ret("none")
  /\ ConvInit

ReplyNext == ReplyExecute \/ ReplySendSettles

ReplySpec == ReplyInit /\ [][ReplyNext]_vars

(***************************************************************************)
(* Properties of the reply tool.                                           *)
(***************************************************************************)
Given(v) == v.t # "undefined"
ReplyReturned(c) == c.pc = "returned"
RepliedError(c) == c.step.kind = "done" /\ c.result.status = "error"

\* the sendMessage calls the handler executions made, in order
SendsOfCalls ==
  LET sending == SelectSeq(handler, LAMBDA c : c.step.kind = "send")
  IN  [i \in 1..Len(sending) |->
         SentMessage(sending[i].step.to, sending[i].step.message, "Markdown")]

\* C22 as stated: without a message, or without both ids, the reply tool
\* returns an error and sends nothing; with a message and both ids given it
\* sends the message once, to chat_id, and never to user_id.
C22_BothIdsSentOnceToChat ==
  /\ sent = SendsOfCalls
  /\ \A i \in 1..Len(handler) :
       LET c == handler[i]
           p == c.params
       IN  /\ (~Given(p.message) \/ (~Given(p.chat_id) /\ ~Given(p.user_id)))
                => RepliedError(c)
           /\ (~Falsy(p.message) /\ Given(p.chat_id) /\ Given(p.user_id))
                => /\ c.step.kind = "send"
                   /\ ~parseInt(p.chat_id).nan
                   /\ c.step.to = parseInt(p.chat_id).n

\* C22, amended: without a message, or without both ids, the reply tool
\* returns an error and sends nothing.  With a message and a chat_id that is
\* neither 0 nor the empty string, only chat_id counts: if it reads as an
\* integer the message is sent once, to that chat, and otherwise the tool
\* returns an error and sends nothing, whatever user_id is.  user_id is the
\* recipient only when chat_id is absent, 0 or empty.
C22_ChatIdDecides ==
  /\ sent = SendsOfCalls
  /\ \A i \in 1..Len(handler) :
       LET c == handler[i]
           p == c.params
       IN  /\ (Falsy(p.message) \/ (Falsy(p.chat_id) /\ Falsy(p.user_id)))
                => RepliedError(c)
           /\ (~Falsy(p.message) /\ ~Falsy(p.chat_id)) =>
                IF parseInt(p.chat_id).nan
                THEN RepliedError(c)
                ELSE /\ c.step.kind = "send"
                     /\ c.step.to = parseInt(p.chat_id).n
           /\ (~Falsy(p.message) /\ Falsy(p.chat_id) /\ c.step.kind = "send")
                => /\ ~parseInt(p.user_id).nan
                   /\ c.step.to = parseInt(p.user_id).n

C22_Witness ==
  /\ Len(handler) = 1
  /\ ReplyReturned(handler[1])
  /\ handler[1].params =
       ReplyParams(JsString(<<"h", "i">>), JsString(<<"4", "2">>), JsNumber(5))
  /\ handler[1].result.status = "success"
  /\ sent = <<SentMessage(42, JsString(<<"h", "i">>), "Markdown")>>

(***************************************************************************)
(* The file tools (CreateFileToolHandler, ModifyFileToolHandler,           *)
(* DeleteFileToolHandler) over one file store.  Every await of a handler   *)
(* is a point where another run's handler may act; a file operation takes  *)
(* effect when its promise settles.  Relative paths resolve one to one, so *)
(* the store is keyed by the relative name, and the only failure of a file *)
(* operation is the absence of its target.                                 *)
(***************************************************************************)
NoFile == [exists |-> FALSE, content |-> <<>>]
StoredFile(content) == [exists |-> TRUE, content |-> content]

FileParams(file_path, content) == [file_path |-> file_path, content |-> content]
FileCall(tool, params) == [tool |-> tool, params |-> params]

\* the first await of a handler, or "returned" when the parameters fail
createFirst(params) ==
  IF Falsy(params.file_path) \/ Falsy(params.content) THEN "returned" ELSE "mkdir"
modifyFirst(params) ==
  IF Falsy(params.file_path) \/ params.content = JsUndefined
  THEN "returned" ELSE "access"
deleteFirst(params) ==
  IF Falsy(params.file_path) THEN "returned" ELSE "access"

firstStep(c) ==
  CASE c.tool = "create_file" -> createFirst(c.params)
    [] c.tool = "modify_file" -> modifyFirst(c.params)
    [] c.tool = "delete_file" -> deleteFirst(c.params)

\* one run of executeToolCalls over a batch of file tool calls: the call it
\* is at, where that call's handler waits, and the statuses returned so far
FileRun(batch, pc, results) == [batch |-> batch, pc |-> pc, results |-> results]
IdleRun == FileRun(<<>>, "idle", <<>>)
CurrentCall(run) == run.batch[Len(run.results) + 1]
TargetOf(run) == CurrentCall(run).params.file_path.s

\* the handler returned status: the loop goes on to the next call
returns(run, status) ==
  LET results == Append(run.results, status)
  IN  IF Len(results) = Len(run.batch)
      THEN FileRun(run.batch, "done", results)
      ELSE FileRun(run.batch, "call", results)

FileRuns == {1, 2}
TempMd == JsString(<<"temp.md">>)
NoteMd == JsString(<<"note.md">>)
StorePaths == {TempMd.s, NoteMd.s}
InitialContent == JsString(<<"# Temporary File">>)
ModifiedContent == JsString(<<"# Modified Temporary File">>)
OldContent == JsString(<<"old">>)
EmptyContent == JsString(<<>>)

Sequence ==
  << FileCall("create_file", FileParams(TempMd, InitialContent)),
     FileCall("modify_file", FileParams(TempMd, ModifiedContent)),
     FileCall("delete_file", FileParams(TempMd, JsUndefined)) >>

FileBatches ==
  { Sequence,
    << FileCall("modify_file", FileParams(TempMd, EmptyContent)) >>,
    << FileCall("delete_file", FileParams(TempMd, JsUndefined)) >>,
    << FileCall("delete_file", FileParams(NoteMd, JsUndefined)),
       FileCall("modify_file", FileParams(NoteMd, ModifiedContent)) >>,
    << FileCall("create_file", FileParams(NoteMd, EmptyContent)),
       FileCall("modify_file", FileParams(JsUndefined, ModifiedContent)),
       FileCall("delete_file", FileParams(JsUndefined, JsUndefined)) >>,
    << FileCall("modify_file", FileParams(NoteMd, JsUndefined)) >> }

fileOthers ==
  <<schedVars, notifVars, engineVars, svc, obs, llmText, call, runs, execLog,
    reg, sent, tg, ctx>>

\* executeToolCalls receives a batch
ExecuteToolCalls(r) ==
  /\ handler[r].pc = "idle"
  /\ \E batch \in FileBatches : handler' = [handler EXCEPT ![r] = FileRun(batch, "call", <<>>)]
  /\ UNCHANGED <<store, fileOthers>>

\* execute(params) up to its first await or its return
FileExecute(r) ==
  /\ handler[r].pc = "call"
  /\ LET run == handler[r]
         first == firstStep(CurrentCall(run))
     IN  handler' = [handler EXCEPT ![r] =
           IF first = "returned" THEN returns(run, "error")
           ELSE FileRun(run.batch, first, run.results)]
  /\ UNCHANGED <<store, fileOthers>>

\* await fs.mkdir(dirPath, { recursive: true })
MkdirSettles(r) ==
  /\ handler[r].pc = "mkdir"
  /\ handler' = [handler EXCEPT ![r] = FileRun(@.batch, "write", @.results)]
  /\ UNCHANGED <<store, fileOthers>>

\* await fs.access(absoluteFilePath)
AccessSettles(r) ==
  /\ handler[r].pc = "access"
  /\ LET run == handler[r]
     IN  handler' = [handler EXCEPT ![r] =
           IF ~store[TargetOf(run)].exists THEN returns(run, "error")
           ELSE IF CurrentCall(run).tool = "modify_file"
           THEN FileRun(run.batch, "write", run.results)
           ELSE FileRun(run.batch, "unlink", run.results)]
  /\ UNCHANGED <<store, fileOthers>>

\* await fs.writeFile(absoluteFilePath, content, 'utf8')
WriteSettles(r) ==
  /\ handler[r].pc = "write"
  /\ LET run == handler[r]
     IN  /\ store' = [store EXCEPT ![TargetOf(run)] =
                        StoredFile(CurrentCall(run).params.content.s)]
         /\ handler' = [handler EXCEPT ![r] = returns(run, "success")]
  /\ UNCHANGED fileOthers

\* await fs.unlink(absoluteFilePath)
UnlinkSettles(r) ==
  /\ handler[r].pc = "unlink"
  /\ LET run == handler[r]
     IN  IF store[TargetOf(run)].exists
         THEN /\ store' = [store EXCEPT ![TargetOf(run)] = NoFile]
              /\ handler' = [handler EXCEPT ![r] = returns(run, "success")]
         ELSE /\ handler' = [handler EXCEPT ![r] = returns(run, "error")]
              /\ UNCHANGED store
  /\ UNCHANGED fileOthers

FileInit ==
  /\ SchedInit /\ NotifInit /\ EngineInit
  /\ dirExists = FALSE
  /\ files = [p \in Paths |-> Absent]
  /\ globalFile = [exists |-> FALSE, data |-> <<>>]
  /\ svc = "recurring-events"
  /\ obs = Ret("none")
  /\ llmText = <<>> /\ call = <<>>
  /\ runs = <<>> /\ execLog = <<>> /\ reg = <<>>
  /\ sent = <<>> /\ tg = <<>> /\ ctx = <<>>
  /\ store \in [StorePaths -> {NoFile, StoredFile(OldContent.s)}]
  /\ handler = [r \in FileRuns |-> IdleRun]

FileNext ==
  \E r \in FileRuns :
    \/ ExecuteToolCalls(r)
    \/ FileExecute(r)
    \/ MkdirSettles(r)
    \/ AccessSettles(r)
    \/ WriteSettles(r)
    \/ UnlinkSettles(r)

FileSpec == FileInit /\ [][FileNext]_vars

(***************************************************************************)
(* Properties of the file tools.                                           *)
(***************************************************************************)
Acts(r) == handler'[r] # handler[r]
At(r, tool, pc) ==
  /\ handler[r].pc = pc
  /\ CurrentCall(handler[r]).tool = tool
LastStatus(run) == run.results[Len(run.results)]

\* a step of a modify_file or delete_file handler whose target is absent
\* returns an error and changes no file
MissingTargetIsError ==
  \A r \in FileRuns :
    (/\ handler[r].pc \in {"access", "write", "unlink"}
     /\ CurrentCall(handler[r]).tool \in {"modify_file", "delete_file"}
     /\ Acts(r)
     /\ ~store[TargetOf(handler[r])].exists)
      => /\ store' = store
         /\ Len(handler'[r].results) = Len(handler[r].results) + 1
         /\ LastStatus(handler'[r]) = "error"

\* on an existing target modify_file replaces the content and delete_file
\* removes the file
ExistingTargetIsChanged ==
  \A r \in FileRuns :
    /\ (At(r, "modify_file", "write") /\ Acts(r)
        /\ store[TargetOf(handler[r])].exists)
         => store'[TargetOf(handler[r])] =
              StoredFile(CurrentCall(handler[r]).params.content.s)
    /\ (At(r, "delete_file", "unlink") /\ Acts(r)
        /\ store[TargetOf(handler[r])].exists)
         => ~store'[TargetOf(handler[r])].exists

\* the batch create_file, modify_file, delete_file on one path, run with no
\* other run at work, succeeds at each step and leaves the file absent
SequenceSucceeds ==
  \A r \in FileRuns :
    (/\ handler[r] # IdleRun
     /\ handler[r].batch = Sequence
     /\ \A o \in FileRuns \ {r} : handler[o] = IdleRun)
      => /\ \A i \in 1..Len(handler[r].results) :
              handler[r].results[i] = "success"
         /\ handler[r].pc = "done" => ~store[TempMd.s].exists

TaskDetails(schedule, message, reminders) ==
  [schedule |-> schedule, message |-> message, reminders |-> reminders]
\* what was derived last: the task details and the id of the main event
Derived(taskDetails, eventId) == [t |-> "derived", v |-> <<taskDetails, eventId>>]

DeriveSchedules ==
  {<<"daily", "at", t>> : t \in TimeToks}
  \cup {<<"every", w, "at", t>> :
          w \in {"friday", "Friday", "monday", "funday"}, t \in {"18:00", "09:30"}}
  \cup {<<"every", "45", u>> : u \in {"minutes", "minute", "hours"}}
  \cup {<<"sometime">>}
DeriveMessages == {<<"Task reminder">>, <<"stand-up">>}

CallCreateEventsFromTask(taskDetails, relativePath) ==
  /\ events = <<>>
  /\ LET X == createEventsFromTask(XCur, taskDetails, relativePath)
     IN  /\ WithinBounds(X)
         /\ SetX(X)
         /\ obs' = Derived(taskDetails, X.events[1].k)
  /\ UNCHANGED <<convVars, svc, watchers, openWatches, isRunning, notifVars,
                 lastProcessed, now, files, dirExists, globalFile, tasks, loader,
                 phase, passes, changes>>

CallUnscheduleFileEvents(relativePath) ==
  /\ events # <<>>
  /\ SetX(unscheduleFileEvents(XCur, relativePath))
  /\ obs' = Ret("void")
  /\ UNCHANGED <<convVars, svc, watchers, openWatches, isRunning, notifVars,
                 lastProcessed, now, files, dirExists, globalFile, tasks, loader,
                 phase, passes, changes>>

DeriveInit ==
  /\ SchedInit /\ NotifInit /\ EngineInit /\ ConvInit
  /\ dirExists = TRUE
  /\ files = [p \in Paths |-> Absent]
  /\ globalFile = [exists |-> FALSE, data |-> <<>>]
  /\ svc = "recurring-events"
  /\ obs = Ret("none")

DeriveNext ==
  \/ \E s \in DeriveSchedules, m \in DeriveMessages, n \in {0, 1, 2}, p \in MdPaths :
       CallCreateEventsFromTask(TaskDetails(s, m, n), p)
  \/ \E p \in MdPaths : CallUnscheduleFileEvents(p)

DeriveSpec == DeriveInit /\ [][DeriveNext]_vars

\* the three forms of the schedule string
IsDailyForm(s) ==
  Len(s) = 3 /\ s[1] = "daily" /\ s[2] = "at" /\ s[3] \in TimeToks
IsWeeklyForm(s) ==
  /\ Len(s) = 4 /\ s[1] = "every" /\ s[3] = "at" /\ s[4] \in TimeToks
  /\ Lower(s[2]) \in {"sunday", "monday", "tuesday", "wednesday", "thursday",
                      "friday", "saturday"}
IsIntervalForm(s) ==
  Len(s) = 3 /\ s[1] = "every" /\ s[2] \in DigitToks /\ s[3] \in UnitToks

JustDerived == obs.t = "derived"
DerivedFrom == obs.v[1].schedule
MainEvent == MapGet(events, obs.v[2])

\* C24: derivation maps 'daily at HH:MM' to a DAILY event with that time,
\* 'every <weekday> at HH:MM' to a WEEKLY event with that weekday and time,
\* and 'every <N> <unit>' to an INTERVAL event with interval N and that unit.
C24_DerivedEventMatchesForm ==
  JustDerived =>
    /\ IsDailyForm(DerivedFrom) =>
         MainEvent.type = "daily" /\ MainEvent.time = DerivedFrom[3]
    /\ IsWeeklyForm(DerivedFrom) =>
         /\ MainEvent.type = "weekly"
         /\ MainEvent.weekday = DerivedFrom[2] /\ MainEvent.time = DerivedFrom[4]
    /\ IsIntervalForm(DerivedFrom) =>
         /\ MainEvent.type = "interval"
         /\ MainEvent.interval = 45 /\ MainEvent.unit = DerivedFrom[3]
    /\ DerivedFrom = <<"daily", "at", "09:30">> => MainEvent.time = "09:30"

C24_Witness ==
  /\ JustDerived
  /\ DerivedFrom = <<"every", "friday", "at", "18:00">>
  /\ MainEvent.type = "weekly"
  /\ MainEvent.weekday = "friday" /\ MainEvent.time = "18:00"

(***************************************************************************)
(* Properties of registration through addJob.                              *)
(***************************************************************************)
Unrecognized(dsl) == ~dailyPattern(dsl) /\ ~weeklyPattern(dsl) /\ ~intervalPattern(dsl)
AddJobOfUnrecognized ==
  \E id \in Ids :
    \/ \E dsl \in Dsls : Unrecognized(dsl) /\ CallAddJob(dsl, id)
    \/ \E cron \in Crons : Unrecognized(cron) /\ NCallAddJob(cron, id)

\* C25: addJob with a string of none of the three forms returns false, does
\* not throw, registers no job and leaves the jobs map unchanged, an
\* existing job under the same id included.
C25_UnrecognizedReturnsFalse ==
  [][AddJobOfUnrecognized =>
       /\ obs' = Ret("false")
       /\ UNCHANGED <<jobs, timers, nJobs, nTimers>>]_vars

InvalidWeekday(w) == weekdayMap(Lower(w)) = NaN
WeeklyOfInvalidDay(dsl) == weeklyPattern(dsl) /\ InvalidWeekday(dsl[2])

\* C26: registering a weekly job whose weekday is not one of sunday..saturday
\* is an error at registration time: after the call no job is registered
\* for the id, and addJob does not return true.
C26_InvalidWeekdayIsReported ==
  [][\A id \in Ids :
       /\ (\E dsl \in Dsls : WeeklyOfInvalidDay(dsl) /\ CallAddJob(dsl, id))
            => obs' # Ret("true") /\ ~MapHas(jobs', id)
       /\ (\E w \in WeekdayStrs, ts \in TimeStrs :
             InvalidWeekday(w) /\ CallScheduleWeekly(w, ts, id))
            => ~MapHas(jobs', id)]_vars

(***************************************************************************)
(* The notifications scheduler on a clock.  Time is counted in minutes     *)
(* from the midnight of day 0 and a day has 24 hours, so the 24 h interval *)
(* of addJob is DayMinutes.  A timer fires at the instant it is due: the   *)
(* clock does not pass a timer that is due.                                *)
(***************************************************************************)
MaxDays == 2        \* the clock stops at the end of this day
DayMinutes == 24 * 60
StartOfDay(clock) == clock - (clock % DayMinutes)
MinuteOfDay(timeStr) == Hours(timeStr) * 60 + Minutes(timeStr)

\* variant: a target equal to now stays today
targetTimeStrict(clock, timeStr) ==
  LET today == StartOfDay(clock) + MinuteOfDay(timeStr)
  IN  IF today < clock THEN today + DayMinutes ELSE today

\* targetTime.setHours(hours, minutes, 0, 0), and tomorrow if that is not
\* after now
targetTime(clock, timeStr) ==
  LET today == StartOfDay(clock) + MinuteOfDay(timeStr)
  IN  IF today <= clock THEN today + DayMinutes ELSE today

\* setTimeout(..., timeUntilTarget) and setInterval(..., 24 h): the timer
\* armed by the call is due at that instant
Armed(N, due) ==
  [N EXCEPT !.timers =
     {IF "due" \in DOMAIN t THEN t
      ELSE [tid |-> t.tid, id |-> t.id, kind |-> t.kind, due |-> due] : t \in @}]

\* what is known of a job id: the instant and the time string of its last
\* addJob, the instants it fired at since, and whether it is scheduled
JobLog(at, timeStr, fires, live) ==
  [at |-> at, timeStr |-> timeStr, fires |-> fires, live |-> live]
NoLog == JobLog(NaN, "", <<>>, FALSE)
Fire(at, live) == [at |-> at, live |-> live]
Logs(log) == [t |-> "logs", v |-> log]

DailyIds == {<<"a", 0>>}
DailyCrons ==
  {<<"daily", "at", "09:30">>, <<"daily", "at", "00:01">>,
   <<"daily", "at", "18:00">>, <<"daily", "at", "25:99">>}
Instants ==
  {d * DayMinutes + m : d \in 0..MaxDays, m \in {0, 1, 2, 570, 571, 1080, 1439}}

dailyOthers ==
  <<schedVars, events, scheduledFileEventIds, lastProcessed, files, dirExists,
    globalFile, tasks, loader, phase, passes, changes, svc, convVars>>

DAddJob(cron, id) ==
  LET r == nAddJob(NCur, cron, id)
  IN  /\ NWithinTimers(r.N)
      /\ IF r.ret = "void"
         THEN /\ SetNotif(Armed(r.N, targetTime(now, cron[3])))
              /\ obs' = Logs([obs.v EXCEPT ![id] = JobLog(now, cron[3], <<>>, TRUE)])
         ELSE /\ SetNotif(r.N)
              /\ obs' = obs
      /\ UNCHANGED <<now, dailyOthers>>

DUnschedule(id) ==
  /\ SetNotif(nUnschedule(NCur, id).N)
  /\ obs' = Logs([obs.v EXCEPT ![id].live = FALSE])
  /\ UNCHANGED <<now, dailyOthers>>

\* the timeout fires: the job runs and the 24 h interval is armed
DTimeoutFires(t) ==
  /\ t \in nTimers /\ t.kind = "timeout" /\ t.due = now
  /\ NWithinTimers(nTimeoutCallback(NCur, t))
  /\ SetNotif(Armed(nTimeoutCallback(NCur, t), now + DayMinutes))
  /\ obs' = Logs([obs.v EXCEPT ![t.id].fires = Append(@, Fire(now, obs.v[t.id].live))])
  /\ UNCHANGED <<now, dailyOthers>>

\* the interval fires: the job runs, and the timer is due again 24 h later
DIntervalFires(t) ==
  /\ t \in nTimers /\ t.kind = "interval" /\ t.due = now
  /\ nTimers' = (nTimers \ {t}) \cup {[t EXCEPT !.due = now + DayMinutes]}
  /\ obs' = Logs([obs.v EXCEPT ![t.id].fires = Append(@, Fire(now, obs.v[t.id].live))])
  /\ UNCHANGED <<nJobs, regTimeouts, regIntervals, now, dailyOthers>>

\* time passes, up to the next instant a timer is due at
Pass(instant) ==
  /\ now < instant
  /\ \A t \in nTimers : instant <= t.due
  /\ now' = instant
  /\ UNCHANGED <<notifVars, obs, dailyOthers>>

DailyInit ==
  /\ SchedInit /\ NotifInit /\ EngineInit /\ ConvInit
  /\ dirExists = FALSE
  /\ files = [p \in Paths |-> Absent]
  /\ globalFile = [exists |-> FALSE, data |-> <<>>]
  /\ svc = "notifications"
  /\ obs = Logs([id \in DailyIds |-> NoLog])

DailyNext ==
  \/ \E id \in DailyIds, cron \in DailyCrons : DAddJob(cron, id)
  \/ \E id \in DailyIds : DUnschedule(id)
  \/ \E t \in nTimers : DTimeoutFires(t)
  \/ \E t \in nTimers : DIntervalFires(t)
  \/ \E instant \in Instants : Pass(instant)

DailySpec == DailyInit /\ [][DailyNext]_vars

(***************************************************************************)
(* Properties of the daily job.                                            *)
(***************************************************************************)
LogOf(id) == obs.v[id]
IsLogged(id) == LogOf(id).at # NaN
\* the first instant after the registration that shows the job's time
NextOccurrence(id) ==
  LET at == LogOf(id).at
      m == MinuteOfDay(LogOf(id).timeStr)
  IN  CHOOSE i \in (at + 1)..(at + DayMinutes) : i % DayMinutes = m

\* C27: a 'daily at HH:MM' job first fires at the next occurrence of that
\* time after its registration (today if still ahead, otherwise tomorrow),
\* once, then every 24 hours; it never fires once unscheduled, and while it
\* is scheduled no occurrence is missed.
C27_DailyFiresAtNextOccurrence ==
  \A id \in DailyIds :
    IsLogged(id) =>
      LET log == LogOf(id)
          first == NextOccurrence(id)
      IN  /\ \A k \in 1..Len(log.fires) :
               /\ log.fires[k].at = first + (k - 1) * DayMinutes
               /\ log.fires[k].live
          /\ log.live => now <= first + Len(log.fires) * DayMinutes

C27_Witness ==
  \E id \in DailyIds :
    /\ LogOf(id).at = 571 /\ LogOf(id).timeStr = "09:30"
    /\ Len(LogOf(id).fires) = 2
    /\ LogOf(id).fires[1].at = DayMinutes + 570
    /\ LogOf(id).fires[2].at = 2 * DayMinutes + 570

(***************************************************************************)
(* TelegramService.sendMessage.  A text is the sequence of its pieces: the *)
(* markers (asterisk, underscore, backtick), the blank, the line break,    *)
(* and runs of other characters.                                           *)
(***************************************************************************)
Count(text, c) == Cardinality({i \in 1..Len(text) : text[i] = c})
IsSpace(c) == c \in {" ", "\n"}                       \* \s
AtLineStart(text, i) == i = 1 \/ text[i - 1] = "\n"   \* ^ with the m flag

\* the end of the longest run of \s from position i on (i - 1 when none)
RECURSIVE SpacesEnd(_, _)
SpacesEnd(text, i) ==
  IF i <= Len(text) /\ IsSpace(text[i]) THEN SpacesEnd(text, i + 1) ELSE i - 1

\* the last position of a match of /^\s*\*\s+/m that starts at i, or 0
ListMarkerEnd(text, i) ==
  LET star == SpacesEnd(text, i) + 1
  IN  IF /\ AtLineStart(text, i)
         /\ star <= Len(text) /\ text[star] = "*"
         /\ SpacesEnd(text, star + 1) > star
      THEN SpacesEnd(text, star + 1)
      ELSE 0

\* sanitized.replace(/^\s*\*\s+/gm, bullet + ' '), bullet being U+2022
Bullet == "(bullet)"
RECURSIVE ReplaceListMarkers(_, _)
ReplaceListMarkers(text, i) ==
  IF i > Len(text) THEN <<>>
  ELSE IF ListMarkerEnd(text, i) # 0
  THEN <<Bullet, " ">> \o ReplaceListMarkers(text, ListMarkerEnd(text, i) + 1)
  ELSE <<text[i]>> \o ReplaceListMarkers(text, i + 1)

\* sanitized.replace(/\*([^*]*)$/g, '*$1'): the match is the last marker
\* with the rest of the text, the group $1 is that rest, and the
\* replacement is the marker followed by $1
ReplaceLast(text, c) ==
  LET last == CHOOSE i \in 1..Len(text) :
                text[i] = c /\ \A j \in (i + 1)..Len(text) : text[j] # c
      group == SubSeq(text, last + 1, Len(text))
  IN  SubSeq(text, 1, last - 1) \o <<c>> \o group

\* variant: an unterminated marker is closed at the end of the text
CloseLast(text, c) == Append(text, c)
sanitizeMarkdownClosing(text) ==
  IF text = <<>> THEN <<>>
  ELSE LET a == IF Count(text, "*") % 2 # 0 THEN CloseLast(text, "*") ELSE text
           u == IF Count(a, "_") % 2 # 0 THEN CloseLast(a, "_") ELSE a
           b == IF Count(u, Backtick) % 2 # 0 THEN CloseLast(u, Backtick) ELSE u
       IN  ReplaceListMarkers(b, 1)

sanitizeMarkdown(text) ==
  IF text = <<>> THEN <<>>
  ELSE LET a == IF Count(text, "*") % 2 # 0 THEN ReplaceLast(text, "*") ELSE text
           u == IF Count(a, "_") % 2 # 0 THEN ReplaceLast(a, "_") ELSE a
           b == IF Count(u, Backtick) % 2 # 0 THEN ReplaceLast(u, Backtick) ELSE u
       IN  ReplaceListMarkers(b, 1)

\* one call of bot.telegram.sendMessage(chatId, text, { parse_mode }) and
\* how the transport answered it
Attempt(chatId, text, parse_mode, outcome) ==
  [chatId |-> chatId, text |-> text, parse_mode |-> parse_mode,
   outcome |-> outcome]
Settled(attempts, outcome) ==
  [attempts EXCEPT ![Len(attempts)].outcome = outcome]
\* one call of sendMessage: its arguments, the attempts made, where it
\* waits and what it returned
TgCall(chatId, text, parseMode, attempts, pc, result) ==
  [chatId |-> chatId, text |-> text, parseMode |-> parseMode,
   attempts |-> attempts, pc |-> pc, result |-> result]

\* variant: no fallback, the call returns false at once
afterFirstRejectedNoFallback(c) ==
  TgCall(c.chatId, c.text, c.parseMode, Settled(c.attempts, "rejected"),
         "returned", "false")

\* the catch of the first send
afterFirstRejected(c) ==
  IF c.parseMode # "None"
  THEN TgCall(c.chatId, c.text, c.parseMode,
              Append(Settled(c.attempts, "rejected"),
                     Attempt(c.chatId, c.text, "undefined", "pending")),
              "fallback", "none")
  ELSE TgCall(c.chatId, c.text, c.parseMode, Settled(c.attempts, "rejected"),
              "returned", "false")

Example30 ==
  <<"This", " ", "is", " ", "*", "bold", " ", "text", " ", "with", " ",
    "unclosed", " ", "asterisk">>
Texts ==
  { Example30,
    <<>>,
    <<"plain">>,
    <<"*">>,
    <<"*", "bold", "*">>,
    <<"*", " ", "one", "\n", " ", "*", " ", "two">>,
    <<"*", " ", "one", " ", "*", "b", "*">>,
    <<"snake", "_", "case">>,
    <<Backtick, "code">> }
ParseModes == {"Markdown", "HTML", "None"}
ChatNumbers == {42, -7}

tgOthers ==
  <<schedVars, notifVars, engineVars, svc, obs, llmText, call, runs, execLog,
    reg, store, handler, sent, ctx>>

\* sendMessage up to its first await
SendMessage(chatId, text, parseMode) ==
  /\ IF tg = <<>> THEN TRUE ELSE tg.pc = "returned"
  /\ LET sanitizedText == IF parseMode = "Markdown" THEN sanitizeMarkdown(text)
                          ELSE text
     IN  tg' = TgCall(chatId, text, parseMode,
                      <<Attempt(chatId, sanitizedText, parseMode, "pending")>>,
                      "first", "none")
  /\ UNCHANGED tgOthers

\* the transport accepts the send the call is waiting for
TransportAccepts ==
  /\ IF tg = <<>> THEN FALSE ELSE tg.pc \in {"first", "fallback"}
  /\ tg' = TgCall(tg.chatId, tg.text, tg.parseMode,
                  Settled(tg.attempts, "accepted"), "returned", "true")
  /\ UNCHANGED tgOthers

\* the transport rejects the send the call is waiting for
TransportRejects ==
  /\ IF tg = <<>> THEN FALSE ELSE tg.pc \in {"first", "fallback"}
  /\ tg' = IF tg.pc = "first" THEN afterFirstRejected(tg)
           ELSE TgCall(tg.chatId, tg.text, tg.parseMode,
                       Settled(tg.attempts, "rejected"), "returned", "false")
  /\ UNCHANGED tgOthers

SendInit ==
  /\ SchedInit /\ NotifInit /\ EngineInit /\ ConvInit
  /\ dirExists = FALSE
  /\ files = [p \in Paths |-> Absent]
  /\ globalFile = [exists |-> FALSE, data |-> <<>>]
  /\ svc = "recurring-events"
  /\ obs = Ret("none")

SendNext ==
  \/ \E chatId \in ChatNumbers, text \in Texts, parseMode \in ParseModes :
       SendMessage(chatId, text, parseMode)
  \/ TransportAccepts
  \/ TransportRejects

SendSpec == SendInit /\ [][SendNext]_vars

(***************************************************************************)
(* Properties of TelegramService.sendMessage.                              *)
(***************************************************************************)
TgReturned == tg # <<>> /\ tg.pc = "returned"
Formatted(c) == c.parseMode # "None"

\* C28: a rejected formatted send is retried once, with formatting disabled
\* and the original text; sendMessage makes at most two send attempts,
\* returns true iff an attempt was accepted and false if every attempt was
\* rejected (a value in either case: it does not throw).
C28_RetryOnceUnformatted ==
  tg # <<>> =>
    /\ Len(tg.attempts) \in {1, 2}
    /\ tg.attempts[1].parse_mode = tg.parseMode
    /\ Len(tg.attempts) = 2 =>
         /\ Formatted(tg) /\ tg.attempts[1].outcome = "rejected"
         /\ tg.attempts[2].chatId = tg.chatId
         /\ tg.attempts[2].text = tg.text
         /\ tg.attempts[2].parse_mode = "undefined"
    /\ (Formatted(tg) /\ tg.attempts[1].outcome = "rejected")
         => Len(tg.attempts) = 2
    /\ tg.pc = "returned" =>
         /\ tg.result \in {"true", "false"}
         /\ tg.result = "true" <=>
              \E i \in 1..Len(tg.attempts) : tg.attempts[i].outcome = "accepted"
         /\ tg.result = "false" <=>
              \A i \in 1..Len(tg.attempts) : tg.attempts[i].outcome = "rejected"

C28_Witness ==
  /\ TgReturned /\ tg.result = "true"
  /\ tg.parseMode = "Markdown"
  /\ tg.text = <<"*", "bold", "*">>
  /\ tg.attempts =
       <<Attempt(42, <<"*", "bold", "*">>, "Markdown", "rejected"),
         Attempt(42, <<"*", "bold", "*">>, "undefined", "accepted")>>

Odd(n) == n % 2 # 0

\* C30: in Markdown mode a text with an odd number of '*' is sent with the
\* marker balanced by a closing '*': 'This is *bold text with unclosed
\* asterisk' is sent as 'This is *bold text with unclosed asterisk*'.
C30_UnterminatedMarkerClosed ==
  (tg # <<>> /\ tg.parseMode = "Markdown" /\ Odd(Count(tg.text, "*"))) =>
    /\ ~Odd(Count(tg.attempts[1].text, "*"))
    /\ tg.text = Example30 => tg.attempts[1].text = Append(Example30, "*")

(***************************************************************************)
(* One event and one job per entry of a task's reminders list.             *)
(***************************************************************************)
DerivedReminders == obs.v[1].reminders
DerivedPath == MainEvent.taskPath
HasOwnJob(id) ==
  /\ Cardinality(LiveTimers(timers, id)) = 1
  /\ \A t \in LiveTimers(timers, id) : MapGet(jobs, id) = JobRef(t.tid)

\* the events of the derived task: the main event and one per reminders entry
OneEventPerEntry ==
  JustDerived =>
    /\ Cardinality(EventIds(events, DerivedPath)) = 1 + DerivedReminders
    /\ Len(EventsOf(events, DerivedPath)) = 1 + DerivedReminders

\* C31: for a task file with a schedule and a reminders list of k entries,
\* derivation produces exactly 1 + k events with that taskPath, each with its
\* own id and its own scheduled job.
C31_OneEventAndJobPerEntry ==
  /\ OneEventPerEntry
  /\ JustDerived => \A id \in EventIds(events, DerivedPath) : HasOwnJob(id)

\* the same, for the schedule strings under which scheduleEvent registers a
\* job
Registers(s) ==
  \/ IsDailyForm(s) /\ s[3] # "25:99"
  \/ IsWeeklyForm(s) /\ s[4] # "25:99"
  \/ IsIntervalForm(s)
C31_RegisteredScheduleHasJobs ==
  (JustDerived /\ Registers(DerivedFrom)) =>
    \A id \in EventIds(events, DerivedPath) : HasOwnJob(id)
C31_TwoReminders ==
  /\ JustDerived /\ DerivedReminders = 2
  /\ DerivedFrom = <<"daily", "at", "09:30">>
  /\ Cardinality(EventIds(events, DerivedPath)) = 3

(***************************************************************************)
(* The conversation history: HistoryService and the processUserMessage     *)
(* invocations that read and append it, two of which may be suspended at   *)
(* the generateContent await at the same time.                             *)
(***************************************************************************)
MaxInvocations == 2             \* processUserMessage invocations of one behaviour
Slots == {1, 2}                 \* invocations in flight at once

\* an entry of the history; by is the number of the invocation that appended
\* it (0: an earlier process), which stands for the entry's timestamp
HistoryEntry(role, content, by) == [role |-> role, content |-> content, by |-> by]
HistoryFile(exists, entries) == [exists |-> exists, entries |-> entries]
HistoryState(history, isLoaded, file) ==
  [history |-> history, isLoaded |-> isLoaded, file |-> file]

saveHistory(H) == [H EXCEPT !.file = HistoryFile(TRUE, H.history)]
load(H) ==
  IF H.isLoaded THEN H
  ELSE IF H.file.exists
       THEN [H EXCEPT !.history = H.file.entries, !.isLoaded = TRUE]
       ELSE [saveHistory([H EXCEPT !.history = <<>>]) EXCEPT !.isLoaded = TRUE]
getHistory(H) == [H |-> load(H), ret |-> load(H).history]
\* variant: the entry is put in front of the log
appendEntryInFront(H, entry) ==
  saveHistory([load(H) EXCEPT !.history = <<entry>> \o load(H).history])
appendEntry(H, entry) ==
  saveHistory([load(H) EXCEPT !.history = Append(load(H).history, entry)])

\* what generateContent settles with: null, a rejection, or a text from which
\* extractToolCalls takes `extracted` calls of which `valid` pass the filter
Generated(kind, extracted, valid) ==
  [kind |-> kind, extracted |-> extracted, valid |-> valid]
Pending == Generated("pending", 0, 0)
Generations ==
  {Generated("null", 0, 0), Generated("rejected", 0, 0)}
  \cup {Generated("text", 0, 0), Generated("text", 1, 0), Generated("text", 1, 1)}
\* the content of the assistant entry: the valid calls, stringified, or the
\* response text itself
assistantContent(response) ==
  IF response.extracted > 0 THEN <<"calls", response.valid>> ELSE <<"text", 0>>

\* one processUserMessage invocation: idle, suspended at the await, or with
\* the response at hand and its continuation not yet run
Invocation(pc, n, message, snapshot, response) ==
  [pc |-> pc, n |-> n, message |-> message, snapshot |-> snapshot,
   response |-> response]
NotInvoked == Invocation("idle", 0, <<>>, <<>>, Pending)
HistMessages == {<<"hi">>, <<"add", "task">>}
OldLog ==
  <<HistoryEntry("user", <<"hi">>, 0), HistoryEntry("assistant", <<"text", 0>>, 0)>>

histOthers ==
  <<schedVars, notifVars, engineVars, svc, obs, llmText, call, runs, execLog,
    reg, sent, tg>>

\* processUserMessage up to the await of generateContent (lines 64-86)
HProcessUserMessage(s, message) ==
  /\ handler[s].pc = "idle"
  /\ ctx < MaxInvocations
  /\ ctx' = ctx + 1
  /\ LET got == getHistory(store)
         userEntry == HistoryEntry("user", message, ctx + 1)
     IN  /\ store' = appendEntry(got.H, userEntry)
         /\ handler' = [handler EXCEPT
                          ![s] = Invocation("await", ctx + 1, message, got.ret, Pending)]
  /\ UNCHANGED histOthers

\* the adapter's promise settles
GenerateContentSettles(s, response) ==
  /\ handler[s].pc = "await"
  /\ handler' = [handler EXCEPT ![s].pc = "resume", ![s].response = response]
  /\ UNCHANGED <<store, ctx>>
  /\ UNCHANGED histOthers

\* the continuation after the await (lines 88-200)
HResume(s) ==
  /\ handler[s].pc = "resume"
  /\ LET response == handler[s].response
     IN  store' =
           IF response.kind = "text"
           THEN appendEntry(store,
                  HistoryEntry("assistant", assistantContent(response), handler[s].n))
           ELSE store
  /\ handler' = [handler EXCEPT ![s] = NotInvoked]
  /\ UNCHANGED ctx
  /\ UNCHANGED histOthers

HistInit ==
  /\ SchedInit /\ NotifInit /\ EngineInit
  /\ llmText = <<>> /\ call = <<>>
  /\ runs = <<>> /\ execLog = <<>> /\ reg = <<>> /\ sent = <<>> /\ tg = <<>>
  /\ dirExists = TRUE
  /\ files = [p \in Paths |-> Absent]
  /\ globalFile = [exists |-> FALSE, data |-> <<>>]
  /\ svc = "llm" /\ obs = Ret("none")
  /\ \E file \in {HistoryFile(FALSE, <<>>), HistoryFile(TRUE, OldLog)} :
       store = HistoryState(<<>>, FALSE, file)
  /\ handler = [s \in Slots |-> NotInvoked]
  /\ ctx = 0

HistNext ==
  \/ \E s \in Slots, m \in HistMessages : HProcessUserMessage(s, m)
  \/ \E s \in Slots, r \in Generations : GenerateContentSettles(s, r)
  \/ \E s \in Slots : HResume(s)

HistSpec == HistInit /\ [][HistNext]_vars

\* the log a reader gets
Log == getHistory(store).ret
LogPrimed == getHistory(store').ret
IsExtension(old, new) ==
  Len(old) <= Len(new) /\ SubSeq(new, 1, Len(old)) = old
EntriesOf(n, role) == {i \in 1..Len(Log) : Log[i].by = n /\ Log[i].role = role}
Invoked == {handler[s].n : s \in {t \in Slots : handler[t].pc # "idle"}}

IsMain(id) == id[1] = "task"
LiveMainEvents(p) ==
  {id \in EventIds(events, p) : IsMain(id) /\ LiveTimers(timers, id) # {}}

\* C33: for each task path, whenever no re-derivation is in flight, at most
\* one main (non-reminder) event with that taskPath is in the events map with
\* a live job, also when a watch-triggered handleVaultFileEvent interleaves
\* with a loadAndScheduleAll pass or with another handleVaultFileEvent for
\* the same path at the awaits of processVaultFileEvent.
C33_OneMainEventPerPath ==
  Quiescent => \A p \in MdPaths : Cardinality(LiveMainEvents(p)) <= 1

\* C34: after stop() has returned, the jobs map stays empty until a caller
\* starts or registers again: a re-derivation or a loadAndScheduleAll pass
\* that was suspended at an await when stop() ran registers no new live job
\* when it resumes.
Stopped == phase = "stopped" /\ jobs = <<>>
C34_NoJobAfterStop ==
  [][Stopped => jobs' = <<>> /\ timers' \subseteq timers]_vars

(***************************************************************************)
(* NotificationService: the reminders of today's tasks, on the clock of    *)
(* the notifications scheduler.  activeReminders is `store`, the resets    *)
(* suspended at getTodaysTasks are `handler`, the task file is `tg`, the   *)
(* reminders sent are `sent`, and `call` keeps, for every reminder id, the *)
(* task and the offset its job callback closes over.                       *)
(***************************************************************************)
MaxReminders == 3               \* reminder ids generated in one behaviour
MaxResets == 2                  \* resets suspended at once
defaultMinutesBefore == 15

\* a task file: the day of its date, its start time as split(':').map(Number)
\* gives it, and its reminders as the list of their minutesBefore
TaskData(date, startTime, completed, reminders) ==
  [date |-> date, startTime |-> startTime, completed |-> completed,
   reminders |-> reminders]
NoTask == TaskData(NaN, <<>>, FALSE, <<>>)
Reminder(taskId, filePath, minutesBefore, scheduledTime) ==
  [taskId |-> taskId, filePath |-> filePath, minutesBefore |-> minutesBefore,
   scheduledTime |-> scheduledTime]
Reset(kind, filename) == [kind |-> kind, filename |-> filename]
Sending(reminderId, at) == [reminderId |-> reminderId, at |-> at]

\* the id of a parsed task is generated anew at every parse, from hex digits
\* and dashes
generateId == <<"xxxxxxxx-xxxx-4xxx-yxxx-xxxxxxxxxxxx">>
\* taskId.includes(filename), for the name of a markdown file
includes(taskId, filename) ==
  IF EndsWithMd(filename) THEN FALSE ELSE taskId = <<filename>>

\* HH:MM of an instant
formatTime(instant) ==
  CHOOSE ts \in TimeToks :
    Hours(ts) <= 23 /\ Hours(ts) * 60 + Minutes(ts) = instant % DayMinutes

\* getTodaysTasks: the tasks whose date is the day of the clock
getTodaysTasks(file, clock) ==
  IF file # NoTask /\ file.date * DayMinutes = StartOfDay(clock)
  THEN <<file>> ELSE <<>>

\* the state that scheduling a reminder touches
RCur ==
  [N |-> NCur, activeReminders |-> store, callbacks |-> call, ids |-> ctx]
RWithinBounds(R) ==
  R.ids <= MaxReminders /\ Cardinality(R.N.timers) <= MaxReminders

\* scheduleTaskReminder
scheduleTaskReminder(R, task, minutesBefore, clock) ==
  LET reminderDate ==
        task.date * DayMinutes + task.startTime[1] * 60 + task.startTime[2]
          - minutesBefore
      reminderId == <<"task_reminder", R.ids + 1>>
      entry == Reminder(generateId, PathA, minutesBefore, reminderDate)
      added == nAddJob(R.N, <<"daily", "at", formatTime(reminderDate)>>, reminderId)
  IN  IF reminderDate <= clock THEN R
      ELSE [N |-> Armed(added.N, targetTime(clock, formatTime(reminderDate))),
            activeReminders |-> MapSet(R.activeReminders, reminderId, entry),
            callbacks |-> MapSet(R.callbacks, reminderId, entry),
            ids |-> R.ids + 1]

RECURSIVE scheduleEach(_, _, _, _, _)
scheduleEach(R, task, reminders, i, clock) ==
  IF i > Len(reminders) THEN R
  ELSE scheduleEach(scheduleTaskReminder(R, task, reminders[i], clock),
                    task, reminders, i + 1, clock)

\* scheduleRemindersForTask
scheduleRemindersForTask(R, task, clock) ==
  IF task.completed THEN R
  ELSE IF Len(task.reminders) > 0
       THEN scheduleEach(R, task, task.reminders, 1, clock)
       ELSE scheduleTaskReminder(R, task, defaultMinutesBefore, clock)

RECURSIVE unscheduleAll(_, _, _)
unscheduleAll(N, ids, i) ==
  IF i > Len(ids) THEN N
  ELSE unscheduleAll(nUnschedule(N, ids[i].k).N, ids, i + 1)

\* the reminders that resetAndRescheduleRemindersForFile removes
remindersOfFile(activeReminders, filename) ==
  SelectSeq(activeReminders, LAMBDA e : includes(e.v.taskId, filename))

\* the setTimeout callback of addJob with the reminder's callback
afterCallback(N, t) == nTimeoutCallback(N, t)

TaskContents ==
  {TaskData(0, <<18, 15>>, FALSE, <<>>),
   TaskData(0, <<18, 15>>, FALSE, <<15, 525>>),
   TaskData(0, <<18, 15>>, TRUE, <<>>),
   TaskData(1, <<18, 15>>, FALSE, <<>>)}
RemindInstants ==
  {d * DayMinutes + m : d \in 0..1, m \in {0, 570, 1080, 1439}}

remindOthers ==
  <<schedVars, events, scheduledFileEventIds, lastProcessed, files, dirExists,
    globalFile, tasks, loader, phase, passes, changes, svc, obs, llmText,
    runs, execLog, reg>>

\* resetAndRescheduleAllReminders up to its await: onModuleInit, the midnight
\* cron and /reset_notifications
ResetAllBegins ==
  /\ Len(handler) < MaxResets
  /\ SetNotif(unscheduleAll(NCur, store, 1))
  /\ store' = <<>>
  /\ handler' = Append(handler, Reset("all", ""))
  /\ UNCHANGED <<now, tg, sent, call, ctx, remindOthers>>

\* the task file is written and the 'fileChanged' listener runs
\* resetAndRescheduleRemindersForFile up to its await
FileChanged(filename, content) ==
  /\ Len(handler) < MaxResets
  /\ tg' = content
  /\ LET found == remindersOfFile(store, filename)
     IN  /\ SetNotif(unscheduleAll(NCur, found, 1))
         /\ store' = SelectSeq(store, LAMBDA e : ~MapHas(found, e.k))
  /\ handler' = Append(handler, Reset("file", filename))
  /\ UNCHANGED <<now, sent, call, ctx, remindOthers>>

\* getTodaysTasks resolves and the reset schedules the reminders
ResetResumes(i) ==
  /\ i \in 1..Len(handler)
  /\ LET todaysTasks == getTodaysTasks(tg, now)
         R == IF todaysTasks = <<>> THEN RCur
              ELSE scheduleRemindersForTask(RCur, todaysTasks[1], now)
     IN  /\ RWithinBounds(R)
         /\ SetNotif(R.N)
         /\ store' = R.activeReminders /\ call' = R.callbacks /\ ctx' = R.ids
  /\ handler' = SubSeq(handler, 1, i - 1) \o SubSeq(handler, i + 1, Len(handler))
  /\ UNCHANGED <<now, tg, sent, remindOthers>>

\* the timeout of a reminder fires: the reminder is sent and removed from
\* activeReminders, and addJob arms the 24 h interval
ReminderTimeoutFires(t) ==
  /\ t \in nTimers /\ t.kind = "timeout" /\ t.due = now
  /\ SetNotif(Armed(afterCallback(NCur, t), now + DayMinutes))
  /\ sent' = Append(sent, Sending(t.id, now))
  /\ store' = MapDelete(store, t.id)
  /\ UNCHANGED <<now, tg, handler, call, ctx, remindOthers>>

ReminderIntervalFires(t) ==
  /\ t \in nTimers /\ t.kind = "interval" /\ t.due = now
  /\ nTimers' = (nTimers \ {t}) \cup {[t EXCEPT !.due = now + DayMinutes]}
  /\ sent' = Append(sent, Sending(t.id, now))
  /\ store' = MapDelete(store, t.id)
  /\ UNCHANGED <<nJobs, regTimeouts, regIntervals, now, tg, handler, call, ctx,
                 remindOthers>>

\* time passes, up to the next instant a timer is due at
ClockPasses(instant) ==
  /\ now < instant
  /\ \A t \in nTimers : instant <= t.due
  /\ now' = instant
  /\ UNCHANGED <<notifVars, store, handler, tg, sent, call, ctx, remindOthers>>

RemindInit ==
  /\ SchedInit /\ NotifInit /\ EngineInit
  /\ llmText = <<>> /\ runs = <<>> /\ execLog = <<>> /\ reg = <<>>
  /\ dirExists = TRUE
  /\ files = [p \in Paths |-> Absent]
  /\ globalFile = [exists |-> FALSE, data |-> <<>>]
  /\ svc = "notifications" /\ obs = Ret("none")
  /\ tg \in TaskContents
  /\ store = <<>> /\ handler = <<>> /\ sent = <<>> /\ call = <<>> /\ ctx = 0

RemindNext ==
  \/ ResetAllBegins
  \/ \E c \in TaskContents : FileChanged(PathA, c)
  \/ \E i \in 1..MaxResets : ResetResumes(i)
  \/ \E t \in nTimers : ReminderTimeoutFires(t)
  \/ \E t \in nTimers : ReminderIntervalFires(t)
  \/ \E instant \in RemindInstants : ClockPasses(instant)

RemindSpec == RemindInit /\ [][RemindNext]_vars

(***************************************************************************)
(* Properties of the reminders.                                            *)
(***************************************************************************)
SendingsOf(id) == {i \in 1..Len(sent) : sent[i].reminderId = id}
ReminderIds == {<<"task_reminder", n>> : n \in 1..MaxReminders}

\* C35: each task reminder fires at most once: after its callback has run
\* and removed it from activeReminders no timer for its id remains live, so
\* every live reminder job is one that a reset can find in activeReminders.
C35_ReminderFiresOnce ==
  /\ \A id \in ReminderIds : Cardinality(SendingsOf(id)) <= 1
  /\ \A t \in nTimers : MapHas(store, t.id)

\* the live jobs that remind of the task file at one offset
LiveJobsFor(minutesBefore) ==
  {t \in nTimers : /\ MapGet(call, t.id).filePath = PathA
                   /\ MapGet(call, t.id).minutesBefore = minutesBefore}
Offsets == {15, 525}

\* C36: after a reset has completed, each non-completed task of today has at
\* most one live reminder job per configured minutesBefore offset, whatever
\* the sequence and the overlap of file-change events and full resets.
C36_OneJobPerOffset ==
  handler = <<>> => \A m \in Offsets : Cardinality(LiveJobsFor(m)) <= 1

(***************************************************************************)
(* ProcessMessageService.executeToolCalls and its two callers: the reply   *)
(* to an inbound message and the task reminder sent to every configured    *)
(* user.  `call` is the LlmResponse object, whose params objects           *)
(* executeToolCalls writes to, `handler` the caller in progress and `sent` *)
(* the calls of SendMessageService.sendMessage.                            *)
(***************************************************************************)
Executed(response, sends) == [response |-> response, sends |-> sends]

\* what executeTool('reply', params) sends
sendsOf(toolCall) ==
  IF toolCall.tool = "reply" /\ replyStep(toolCall.params).kind = "send"
  THEN <<SentMessage(replyStep(toolCall.params).to,
                     replyStep(toolCall.params).message, "Markdown")>>
  ELSE <<>>

\* lines 68-75: chat_id and user_id are written into the params of a reply
\* where the params have none
withRecipient(toolCall, userId, chatId) ==
  IF toolCall.tool # "reply" THEN toolCall
  ELSE ToolCall("reply",
         ReplyParams(toolCall.params.message,
                     IF Falsy(toolCall.params.chat_id) THEN chatId
                     ELSE toolCall.params.chat_id,
                     IF Falsy(toolCall.params.user_id) THEN userId
                     ELSE toolCall.params.user_id))

\* executeToolCalls(response, userId, chatId): the response as the call
\* leaves it, and the messages sent
RECURSIVE executeToolCalls(_, _, _, _, _)
executeToolCalls(response, userId, chatId, i, sends) ==
  IF response = <<>>
  THEN Executed(response,
         sendsOf(ToolCall("reply",
           ReplyParams(JsString(<<"Error: no valid response">>), chatId, userId))))
  ELSE IF i > Len(response) THEN Executed(response, sends)
  ELSE LET toolCall == withRecipient(response[i], userId, chatId)
       IN  executeToolCalls([response EXCEPT ![i] = toolCall], userId, chatId,
                            i + 1, sends \o sendsOf(toolCall))

\* the caller in progress, with the response as the model generated it
Caller(op, userIds, chatId, i, generated) ==
  [op |-> op, userIds |-> userIds, chatId |-> chatId, i |-> i,
   generated |-> generated]
NoCaller == Caller("idle", <<>>, JsUndefined, 0, <<>>)

ReminderText == JsString(<<"r", "e", "m">>)
\* the tool calls of an answer: a reply with the message only, as the prompts
\* ask for, or with a chat_id or a user_id of the model's own
LlmChatIds == {JsUndefined, JsNumber(666), JsString(<<"4", "2">>)}
LlmUserIds == {JsUndefined, JsString(<<"9">>)}
LlmReplies ==
  {ToolCall("reply", ReplyParams(ReminderText, c, u)) :
     c \in LlmChatIds, u \in LlmUserIds}
LlmResponses ==
  {<<>>} \cup {<<r>> : r \in LlmReplies}
  \cup {<<ToolCall("create_file", ReplyParams(JsUndefined, JsUndefined, JsUndefined)), r>> :
          r \in LlmReplies}
\* TELEGRAM_USER_ID lists of the configuration
ConfiguredUserIds ==
  {<<JsString(<<"5">>)>>, <<JsString(<<"5">>), JsString(<<"9">>)>>,
   <<JsString(<<"9">>), JsString(<<"5">>)>>,
   <<JsString(<<"m", "e">>), JsString(<<"5">>)>>}
InboundChats == {JsNumber(42), JsNumber(7)}

deliverOthers ==
  <<schedVars, notifVars, engineVars, svc, obs, llmText, runs, execLog, reg,
    store, tg, ctx>>

\* sendTaskReminder up to its loop: the reminder has been generated
SendTaskReminder(userIds, llmResponse) ==
  /\ handler.op \in {"idle", "done"}
  /\ handler' = Caller("reminder", userIds, JsUndefined, 1, llmResponse)
  /\ call' = llmResponse
  /\ sent' = <<>>
  /\ UNCHANGED deliverOthers

\* one iteration of the loop over the configured user ids
ReminderIteration ==
  /\ handler.op = "reminder"
  /\ IF handler.i > Len(handler.userIds)
     THEN /\ handler' = [handler EXCEPT !.op = "done"]
          /\ UNCHANGED <<call, sent>>
     ELSE LET userId == handler.userIds[handler.i]
              done == executeToolCalls(call, userId, JsUndefined, 1, <<>>)
          IN  /\ handler' = [handler EXCEPT !.i = @ + 1]
              /\ IF parseInt(userId).nan
                 THEN UNCHANGED <<call, sent>>
                 ELSE call' = done.response /\ sent' = sent \o done.sends
  /\ UNCHANGED deliverOthers

\* processMessage from the resolved processUserMessage on
ProcessInbound(chatId, result) ==
  /\ handler.op \in {"idle", "done"}
  /\ LET done == executeToolCalls(result, JsUndefined, chatId, 1, <<>>)
     IN  call' = done.response /\ sent' = done.sends
  /\ handler' = Caller("done", <<>>, chatId, 0, result)
  /\ UNCHANGED deliverOthers

DeliverInit ==
  /\ SchedInit /\ NotifInit /\ EngineInit
  /\ llmText = <<>> /\ runs = <<>> /\ execLog = <<>> /\ reg = <<>>
  /\ store = <<>> /\ tg = <<>> /\ ctx = <<>>
  /\ dirExists = FALSE
  /\ files = [p \in Paths |-> Absent]
  /\ globalFile = [exists |-> FALSE, data |-> <<>>]
  /\ svc = "telegram" /\ obs = Ret("none")
  /\ handler = NoCaller /\ call = <<>> /\ sent = <<>>

DeliverNext ==
  \/ \E u \in ConfiguredUserIds, r \in LlmResponses : SendTaskReminder(u, r)
  \/ ReminderIteration
  \/ \E c \in InboundChats, r \in LlmResponses : ProcessInbound(c, r)

DeliverSpec == DeliverInit /\ [][DeliverNext]_vars

(***************************************************************************)
(* Properties of the delivery.                                             *)
(***************************************************************************)
NumericUserIds(userIds) == SelectSeq(userIds, LAMBDA u : ~parseInt(u).nan)
ReminderDone == handler.op = "done" /\ handler.userIds # <<>>
MessageOnly == <<ToolCall("reply", ReplyParams(ReminderText, JsUndefined, JsUndefined))>>

\* C37: sendTaskReminder with k configured numeric user ids delivers the
\* reminder to each of the k users exactly once: the i-th executeToolCalls
\* call sends to the i-th user id, not to one left in the shared params by
\* an earlier iteration.
C37_EachUserOnce ==
  (ReminderDone /\ handler.generated = MessageOnly) =>
    /\ Len(sent) = Len(NumericUserIds(handler.userIds))
    /\ \A i \in 1..Len(sent) :
         sent[i].to = parseInt(NumericUserIds(handler.userIds)[i]).n

InboundDone == handler.op = "done" /\ handler.userIds = <<>>
\* C38: while an inbound message from chat C is processed, every reply that
\* is executed is addressed to chat C: a chat_id or user_id that the LLM
\* output put into the params cannot redirect the reply.
C38_RepliesToInboundChat ==
  InboundDone => \A i \in 1..Len(sent) : sent[i].to = handler.chatId.n

(***************************************************************************)
(* TelegramAppService: the handlers of inbound updates and the allow list. *)
(* `tg` is the configured id list, `store` allowedUserIds as the           *)
(* constructor computes it, `handler` the update handled last and          *)
(* `execLog` what handling it set off.                                     *)
(***************************************************************************)
Update(kind, from, transcription) ==
  [kind |-> kind, from |-> from, transcription |-> transcription]
Effect(what, from) == [what |-> what, from |-> from]

\* userIds.map((id) => parseInt(id, 10)).filter((id) => !isNaN(id))
RECURSIVE allowedUserIdsOf(_)
allowedUserIdsOf(userIds) ==
  IF userIds = <<>> THEN <<>>
  ELSE IF parseInt(Head(userIds)).nan THEN allowedUserIdsOf(Tail(userIds))
       ELSE <<parseInt(Head(userIds)).n>> \o allowedUserIdsOf(Tail(userIds))

\* variant: any sender with an id passes
isAllowedAnyId(allowedUserIds, userId) == ~Falsy(userId)
\* the check at the head of every handler
isAllowed(allowedUserIds, userId) ==
  /\ ~Falsy(userId)
  /\ \E i \in 1..Len(allowedUserIds) : allowedUserIds[i] = userId.n

\* the 'message' handler: a text goes to processMessage, a voice message is
\* downloaded, transcribed and, if that gave a text, goes to processMessage
onMessage(allowedUserIds, update) ==
  IF ~isAllowed(allowedUserIds, update.from) THEN <<>>
  ELSE IF update.kind = "voice"
  THEN <<Effect("reply", update.from), Effect("downloadFile", update.from),
         Effect("transcribeAudioAsync", update.from)>>
       \o (IF update.transcription = "text"
           THEN <<Effect("processMessage", update.from)>>
           ELSE <<Effect("reply", update.from)>>)
  ELSE <<Effect("processMessage", update.from)>>

\* the command handlers
onCommand(allowedUserIds, update) ==
  IF ~isAllowed(allowedUserIds, update.from) THEN <<>>
  ELSE CASE update.kind = "reset_notifications" ->
              <<Effect("reply", update.from),
                Effect("resetAndRescheduleAllReminders", update.from),
                Effect("reply", update.from)>>
         [] update.kind = "morning_digest" ->
              <<Effect("reply", update.from), Effect("sendMorningDigest", update.from)>>
         [] update.kind = "evening_check" ->
              <<Effect("reply", update.from), Effect("sendEveningCheckIn", update.from)>>
         [] OTHER -> <<Effect("reply", update.from)>>

Commands ==
  {"start", "help", "clear", "reset_notifications", "morning_digest",
   "evening_check"}
Senders == {JsUndefined, JsNumber(0), JsNumber(5), JsNumber(9), JsNumber(13)}
Updates ==
  {Update(k, f, "none") : k \in {"text"} \cup Commands, f \in Senders}
  \cup {Update("voice", f, t) : f \in Senders, t \in {"null", "text", "not implemented"}}
\* TELEGRAM_USER_IDS, split at the commas and trimmed
ConfiguredIdLists ==
  {<<>>, <<JsString(<<"5">>)>>, <<JsString(<<"5">>), JsString(<<"9">>)>>,
   <<JsString(<<"m", "e">>), JsString(<<"9">>)>>}
NoUpdate == Update("none", JsUndefined, "none")

allowOthers ==
  <<schedVars, notifVars, engineVars, svc, obs, llmText, call, runs, reg, sent,
    ctx, tg, store>>

\* an update reaches the 'message' handler
OnMessage(update) ==
  /\ handler' = update
  /\ execLog' = onMessage(store, update)
  /\ UNCHANGED allowOthers

\* an update reaches the handler of its command
OnCommand(update) ==
  /\ update.kind \in Commands
  /\ handler' = update
  /\ execLog' = onCommand(store, update)
  /\ UNCHANGED allowOthers

AllowInit ==
  /\ SchedInit /\ NotifInit /\ EngineInit
  /\ llmText = <<>> /\ call = <<>> /\ runs = <<>> /\ reg = <<>>
  /\ sent = <<>> /\ ctx = <<>>
  /\ dirExists = FALSE
  /\ files = [p \in Paths |-> Absent]
  /\ globalFile = [exists |-> FALSE, data |-> <<>>]
  /\ svc = "telegram" /\ obs = Ret("none")
  /\ tg \in ConfiguredIdLists
  /\ store = allowedUserIdsOf(tg)
  /\ handler = NoUpdate /\ execLog = <<>>

AllowNext ==
  \/ \E u \in Updates : OnMessage(u)
  \/ \E u \in Updates : OnCommand(u)

AllowSpec == AllowInit /\ [][AllowNext]_vars

\* the sender's id is one of the configured ids
Configured(from) ==
  /\ from.t = "number"
  /\ \E i \in 1..Len(tg) : tg[i].t = "string" /\ parseInt(tg[i]) = Parsed(from.n)

\* C39: a message (text or voice) or a command from a sender whose user id
\* is not in the configured allowed list never reaches ProcessMessageService
\* or NotificationService: no LLM call, no tool execution and no reply
\* results from it.
C39_UnlistedSenderIgnored ==
  ~Configured(handler.from) => execLog = <<>>

\* a voice message of sender 13 was dropped while 5 and 9 are configured
C39_Witness ==
  /\ handler.kind = "voice" /\ handler.from = JsNumber(13)
  /\ store = <<5, 9>> /\ execLog = <<>>
\* and a text of sender 9 went through
C39_Served ==
  /\ handler.kind = "text" /\ handler.from = JsNumber(9)
  /\ Len(execLog) = 1 /\ execLog[1].what = "processMessage"

(***************************************************************************)
(* The paths of the file tools.  A path string is the sequence of its      *)
(* segments, with "/" as the first segment of an absolute path; `store` is *)
(* the set of the files that exist, `handler` the tool call made last and  *)
(* `execLog` the file system calls it made.                                *)
(***************************************************************************)
basePath == <<"/", "vault">>
isAbsolute(p) == p # <<>> /\ p[1] = "/"

\* path.normalize: "." is dropped and ".." drops the segment before it, but
\* never the root
RECURSIVE normalizeInto(_, _)
normalizeInto(done, rest) ==
  IF rest = <<>> THEN done
  ELSE IF Head(rest) = "." THEN normalizeInto(done, Tail(rest))
  ELSE IF Head(rest) = ".."
       THEN IF Len(done) > 1
            THEN normalizeInto(SubSeq(done, 1, Len(done) - 1), Tail(rest))
            ELSE normalizeInto(done, Tail(rest))
       ELSE normalizeInto(Append(done, Head(rest)), Tail(rest))
normalize(p) == normalizeInto(<<"/">>, Tail(p))
\* path.join(a, b) joins and normalizes
join(a, b) == normalize(a \o b)
dirname(p) == IF Len(p) > 1 THEN SubSeq(p, 1, Len(p) - 1) ELSE p

resolveFilePath(filePath) ==
  IF isAbsolute(filePath) THEN filePath ELSE join(basePath, filePath)

\* a call of fs: the operation and the file or directory the operating
\* system takes the path to
FsCall(op, p) == [op |-> op, path |-> normalize(p)]
PathCall(tool, file_path) == [tool |-> tool, file_path |-> file_path]
Outcome(calls, exist) == [calls |-> calls, exist |-> exist]

\* the three handlers, for a file_path and a content that pass the checks
createFile(exist, file_path) ==
  LET absoluteFilePath == resolveFilePath(file_path)
  IN  Outcome(<<FsCall("mkdir", dirname(absoluteFilePath)),
                FsCall("writeFile", absoluteFilePath)>>,
              exist \cup {normalize(absoluteFilePath)})
modifyFile(exist, file_path) ==
  LET absoluteFilePath == resolveFilePath(file_path)
  IN  IF normalize(absoluteFilePath) \in exist
      THEN Outcome(<<FsCall("access", absoluteFilePath),
                     FsCall("writeFile", absoluteFilePath)>>, exist)
      ELSE Outcome(<<FsCall("access", absoluteFilePath)>>, exist)
deleteFile(exist, file_path) ==
  LET absoluteFilePath == resolveFilePath(file_path)
  IN  IF normalize(absoluteFilePath) \in exist
      THEN Outcome(<<FsCall("access", absoluteFilePath),
                     FsCall("unlink", absoluteFilePath)>>,
                   exist \ {normalize(absoluteFilePath)})
      ELSE Outcome(<<FsCall("access", absoluteFilePath)>>, exist)

FilePaths ==
  {<<"note.md">>, <<"03 - Tasks", "a.md">>, <<".", "note.md">>,
   <<"03 - Tasks", "..", "note.md">>, <<"..", "secret.txt">>,
   <<"03 - Tasks", "..", "..", "secret.txt">>,
   <<"/", "etc", "passwd">>, <<"/", "vault", "abs.md">>,
   <<"/", "vault", "..", "etc", "passwd">>}
PathTools == {"create_file", "modify_file", "delete_file"}
NoPathCall == PathCall("none", <<>>)

pathOthers ==
  <<schedVars, notifVars, engineVars, svc, obs, llmText, call, runs, reg, sent,
    ctx, tg>>

ExecuteFileTool(tool, file_path) ==
  /\ LET done == CASE tool = "create_file" -> createFile(store, file_path)
                   [] tool = "modify_file" -> modifyFile(store, file_path)
                   [] tool = "delete_file" -> deleteFile(store, file_path)
     IN  store' = done.exist /\ execLog' = done.calls
  /\ handler' = PathCall(tool, file_path)
  /\ UNCHANGED pathOthers

PathInit ==
  /\ SchedInit /\ NotifInit /\ EngineInit
  /\ llmText = <<>> /\ call = <<>> /\ runs = <<>> /\ reg = <<>>
  /\ sent = <<>> /\ ctx = <<>> /\ tg = <<>>
  /\ dirExists = TRUE
  /\ files = [p \in Paths |-> Absent]
  /\ globalFile = [exists |-> FALSE, data |-> <<>>]
  /\ svc = "tools" /\ obs = Ret("none")
  /\ store = {<<"/", "vault", "note.md">>, <<"/", "etc", "passwd">>}
  /\ handler = NoPathCall /\ execLog = <<>>

PathNext == \E t \in PathTools, p \in FilePaths : ExecuteFileTool(t, p)

PathSpec == PathInit /\ [][PathNext]_vars

InsideRoot(p) ==
  Len(p) >= Len(basePath) /\ SubSeq(p, 1, Len(basePath)) = basePath

\* C40: create_file, modify_file and delete_file only ever read or write
\* paths inside the configured vault root, for every file_path string an
\* invocation can carry, absolute paths and paths with '..' segments
\* included.
C40_OnlyInsideVaultRoot ==
  /\ \A i \in 1..Len(execLog) : InsideRoot(execLog[i].path)
  /\ <<"/", "etc", "passwd">> \in store
  /\ \A p \in store : InsideRoot(p) \/ p = <<"/", "etc", "passwd">>
====
